---- MODULE Spec2Model ----
(***************************************************************************)
(* Verification model of the BSS Soundweb control module:                  *)
(*   - ParameterSubscriptionManager / ParameterSubscription (parameters.ts)*)
(*   - ResponseNotifier (responseNotifier)                                 *)
(*   - NodeConnectionWatchdog / NodePoller / DependencyManager (watchdog)  *)
(* Every manager call is one atomic action: the module runs on a single    *)
(* threaded event loop and a call only yields at an await.                 *)
(***************************************************************************)
EXTENDS Integers, Sequences, FiniteSets, TLC

(***************************************************************************)
(* Bounds of the model                                                     *)
(***************************************************************************)
\* largest number of parameter subscriptions held at the same time
MaxSubs == 2
\* number of callers that can have a getParameterValue call outstanding
MaxCallers == 2
\* largest hit / miss streak that is tracked
MaxStreak == 3
\* number of watchdog.stop() calls that can be pending at the same time
MaxStopCalls == 2
\* largest number of bytes of a command that is encapsulated
MaxLen == 2
\* largest number of bytes of a command in a received chunk
MaxRxLen == 1
\* largest number of frames in a received chunk
MaxFrames == 2
\* largest number of configUpdated calls
MaxConfigs == 1

(***************************************************************************)
(* Domains                                                                 *)
(***************************************************************************)
Nodes == {1, 2}
\* a parameter address: <<node, rest of the address>>
ParameterAddresses == {<<1, "3.0.1.1.0">>, <<2, "3.0.1.1.0">>}
ParameterSubscriptionType == {"RAW", "PERCENT"}
ParameterUnit == {"RAW", "DB", "PERCENT"}
\* a dependent: <<DependentType, id>>
Dependents == {<<"FEEDBACK", "f1">>, <<"ACTION", "a1">>}
\* parameter values; a cached value is <<>> (null) or <<v>>
Values == {0, 1}
\* the (address, representation) pairs the calls are made with
Targets == {<<<<1, "3.0.1.1.0">>, "RAW">>, <<<<1, "3.0.1.1.0">>, "PERCENT">>,
            <<<<2, "3.0.1.1.0">>, "RAW">>}
Null == <<>>
Callers == 1..MaxCallers
\* the caller of getParameterValue where calls do not overlap
FirstCaller == 1
\* the (node, dependent id) references addNodeDependency is called with
NodeReferences == {<<1, "f1">>, <<1, "a1">>, <<2, "a1">>}
DependentIds == {r[2] : r \in NodeReferences}
StopCalls == 1..MaxStopCalls
FirstNode == 1
\* options of the watchdog
onlineThreshold == 2
offlineThreshold == 2

VARIABLES
    \* ---- ParameterSubscriptionManager
    paramSubMap,            \* paramId -> [value, dependentRegistrations]
    paramAddressMap,        \* address -> set of paramIds
    paramSubDependentsMap,  \* dependent -> set of paramIds
    nodeMap,                \* node -> set of paramIds
    \* ---- ResponseNotifier of the manager and the getParameterValue calls
    listeners,              \* callers whose once() listener is registered
    timers,                 \* callers with an armed timeout, oldest first
    calls,                  \* caller -> [state, key] of its getParameterValue call
    \* ---- what the last call did: its name, the callbacks it invoked and the
    \*      getParameterValue calls it completed
    out,                    \* [call, subscribed, unsubscribed, notified, completed]
    \* ---- NodeConnectionWatchdog
    nodePollerMap,          \* node -> NodePoller
    dependenciesToDependents,   \* DependencyManager: node -> dependent ids
    dependentsToDependencies,   \* DependencyManager: dependent id -> nodes
    connnected,             \* #connnected, the aggregate connection status
    wdRunning,              \* #running of the watchdog
    wdStops,                \* pending watchdog.stop() calls: call -> nodes awaited
    \* ---- what the last watchdog step did
    connectionStatusLog,    \* the last connectionStatus value emitted
    wdOut,                  \* [call, events, probes, stopResolved]
    \* ---- device methods of the module instance (main.ts)
    setCalls,               \* caller -> the set call awaiting its parameter value
    devOut,                 \* [call, sent]: frames the last device call handed to the socket
    \* ---- wire format (sweb.ts) and the receive path (main.ts)
    codec,                  \* [payload, frame, tampered, result] of the frame at hand
    rx,                     \* [frames, chunk, parsed, messages] of the received data
    \* ---- ParameterAddress (sweb.ts)
    pa,                     \* [text, parsed, buf, back] of the address at hand
    \* ---- unit conversions (sweb.ts)
    conv,                   \* [kind, input, parsed, result, back] of the value at hand
    \* ---- ModuleVariableSetter (variables) and what the host is handed
    setter,                 \* [commitedDefinitions, adding, removing, bufferedValues, buffered]
    host,                   \* [call, published, definitions, requested, lastSet]
    \* ---- SoundwebModuleInstance: reconfiguration and the device's subscriptions
    instance,               \* [phase, configs, awaited, onDevice, loops, kept, connected]
    \* ---- VariableManager
    vm                      \* [variableDefinitionsMap, variableDependentsMap, result]

psmVars == <<paramSubMap, paramAddressMap, paramSubDependentsMap, nodeMap,
             listeners, timers, calls, out>>

wdVars == <<nodePollerMap, dependenciesToDependents, dependentsToDependencies,
            connnected, wdRunning, wdStops, connectionStatusLog, wdOut>>

devVars == <<setCalls, devOut>>

wireVars == <<codec, rx>>

libVars == <<pa, conv, setter, host, instance, vm>>

vars == <<paramSubMap, paramAddressMap, paramSubDependentsMap, nodeMap,
          listeners, timers, calls, out,
          nodePollerMap, dependenciesToDependents, dependentsToDependencies,
          connnected, wdRunning, wdStops, connectionStatusLog, wdOut,
          setCalls, devOut, codec, rx, pa, conv, setter, host, instance, vm>>

(***************************************************************************)
(* JavaScript Map helpers                                                  *)
(***************************************************************************)
MapSet(f, k, v) == [x \in DOMAIN f \cup {k} |-> IF x = k THEN v ELSE f[x]]
MapDelete(f, k) == [x \in DOMAIN f \ {k} |-> f[x]]
\* map.get(k) ?? new Set()
MapGetSet(f, k) == IF k \in DOMAIN f THEN f[k] ELSE {}
EmptyMap == [x \in {} |-> {}]

(***************************************************************************)
(* parameters.ts                                                           *)
(***************************************************************************)
paramSubIdSuffixFromSubscriptionType(subscriptionType) ==
    IF subscriptionType = "RAW" THEN ":STD" ELSE ":PC"

parameterSubscriptionTypeFromUnit(unit) ==
    IF unit = "PERCENT" THEN "PERCENT" ELSE "RAW"

\* `${paramAddress.toString()}${suffix}`
getParamSubIdFromUnit(paramAddress, unit) ==
    <<paramAddress,
      paramSubIdSuffixFromSubscriptionType(parameterSubscriptionTypeFromUnit(unit))>>

getParamSubIdFromSubscriptionType(paramAddress, subscriptionType) ==
    <<paramAddress, paramSubIdSuffixFromSubscriptionType(subscriptionType)>>

ParamSubIds == {getParamSubIdFromSubscriptionType(t[1], t[2]) : t \in Targets}

\* fields of a ParameterSubscription that are fixed by its id
parameterAddress(paramId) == paramId[1]
AddressNode(paramAddress) == paramAddress[1]

\* new ParameterSubscription(...): value null, no dependents
ParameterSubscription == [value |-> Null, dependentRegistrations |-> {}]

hasDependents(paramSub) == Cardinality(paramSub.dependentRegistrations) > 0
hasNoDependents(paramSub) == ~hasDependents(paramSub)

\* The manager's maps and the callbacks invoked so far in the running call.
Mgr == [paramSubMap |-> paramSubMap,
        paramAddressMap |-> paramAddressMap,
        paramSubDependentsMap |-> paramSubDependentsMap,
        nodeMap |-> nodeMap,
        subscribed |-> <<>>, unsubscribed |-> <<>>, notified |-> <<>>]

\* the result object { data, error } a getParameterValue call of caller c returns
Completion(c, key, data, error) ==
    [caller |-> c, key |-> key, data |-> data, error |-> error]

subscribeToDevice(m, paramId) ==
    [m EXCEPT !.subscribed = Append(@, paramId)]

unsubscribeFromDevice(m, paramId) ==
    [m EXCEPT !.unsubscribed = Append(@, paramId)]

addNodeMapping(m, node, paramSubId) ==
    [m EXCEPT !.nodeMap = MapSet(@, node, MapGetSet(@, node) \cup {paramSubId})]

removeNodeMapping(m, node, paramSubId) ==
    IF node \notin DOMAIN m.nodeMap THEN m
    ELSE IF m.nodeMap[node] \ {paramSubId} = {}
         THEN [m EXCEPT !.nodeMap = MapDelete(@, node)]
         ELSE [m EXCEPT !.nodeMap = MapSet(@, node, @[node] \ {paramSubId})]

createParameterSubscription(m, paramId, paramAddress) ==
    LET m1 == [m EXCEPT
                 !.paramSubMap = MapSet(@, paramId, ParameterSubscription),
                 !.paramAddressMap =
                     MapSet(@, paramAddress, MapGetSet(@, paramAddress) \cup {paramId})]
        m2 == addNodeMapping(m1, AddressNode(paramAddress), paramId)
    IN  subscribeToDevice(m2, paramId)

getOrCreateParameterSubscription(m, paramId, paramAddress) ==
    IF paramId \in DOMAIN m.paramSubMap
    THEN m
    ELSE createParameterSubscription(m, paramId, paramAddress)

removeParameterSubscription(m, paramId) ==
    LET addr == parameterAddress(paramId)
        rest == MapGetSet(m.paramAddressMap, addr) \ {paramId}
        m1 == [m EXCEPT
                 !.paramSubMap = MapDelete(@, paramId),
                 !.paramAddressMap =
                     IF rest = {} THEN MapDelete(@, addr)
                     ELSE MapSet(@, addr, rest)]
        m2 == removeNodeMapping(m1, AddressNode(addr), paramId)
    IN  unsubscribeFromDevice(m2, paramId)

\* mutation of purgeParameterSubscription: the dependents are not looked at
purgeParameterSubscription_Always(m, paramId) ==
    removeParameterSubscription(m, paramId)

purgeParameterSubscription(m, paramId) ==
    IF hasNoDependents(m.paramSubMap[paramId])
    THEN removeParameterSubscription(m, paramId)
    ELSE m

parameterSubscriptionFromAddressAndUnit(m, paramAddress, unit) ==
    getOrCreateParameterSubscription(m, getParamSubIdFromUnit(paramAddress, unit),
                                     paramAddress)

\* get(depId) ?? new Set([paramSub.id]): an existing set is stored back unchanged
addParamSubRegistration(m, dep, paramId) ==
    [m EXCEPT !.paramSubDependentsMap =
         MapSet(@, dep, IF dep \in DOMAIN @ THEN @[dep] ELSE {paramId})]

\* ParameterSubscription.registerDependent
subRegisterDependent(m, paramId, dep) ==
    [m EXCEPT !.paramSubMap[paramId].dependentRegistrations = @ \cup {dep}]

\* ParameterSubscription.deregister
subDeregister(m, paramId, dep) ==
    [m EXCEPT !.paramSubMap[paramId].dependentRegistrations = @ \ {dep}]

\* the manager after registerDependent(depType, depId, paramAddress, unit)
mgrRegisterDependent(m, dep, paramAddress, unit) ==
    LET paramId == getParamSubIdFromUnit(paramAddress, unit)
        m1 == parameterSubscriptionFromAddressAndUnit(m, paramAddress, unit)
        m2 == addParamSubRegistration(m1, dep, paramId)
    IN  subRegisterDependent(m2, paramId, dep)

\* paramSubIds.forEach(...) of deregisterDependent
RECURSIVE deregisterEach(_, _, _)
deregisterEach(m, dep, paramSubIds) ==
    IF paramSubIds = {} THEN m
    ELSE LET paramSubId == CHOOSE x \in paramSubIds : TRUE
             m1 == IF paramSubId \in DOMAIN m.paramSubMap
                   THEN purgeParameterSubscription(
                            subDeregister(m, paramSubId, dep), paramSubId)
                   ELSE m
         IN  deregisterEach(m1, dep, paramSubIds \ {paramSubId})

\* the manager after deregisterDependent(depType, depId); popParamSubDependent inlined
mgrDeregisterDependent(m, dep) ==
    LET paramSubIds == MapGetSet(m.paramSubDependentsMap, dep)
        m1 == [m EXCEPT !.paramSubDependentsMap = MapDelete(@, dep)]
    IN  deregisterEach(m1, dep, paramSubIds)

\* the manager part of setCachedParameterValue (without the notifier)
mgrSetCachedParameterValue(m, paramAddress, subscriptionType, value) ==
    LET paramId == getParamSubIdFromSubscriptionType(paramAddress, subscriptionType)
        m1 == getOrCreateParameterSubscription(m, paramId, paramAddress)
    IN  IF <<value>> # m1.paramSubMap[paramId].value
        THEN [m1 EXCEPT !.paramSubMap[paramId].value = <<value>>,
                        !.notified = Append(@,
                            [value |-> value,
                             dependents |-> m1.paramSubMap[paramId].dependentRegistrations])]
        ELSE m1

\* subs.forEach(...) of updateCachedParameterValueFromDevice
RECURSIVE subscribeEach(_, _)
subscribeEach(m, subs) ==
    IF subs = {} THEN m
    ELSE LET sub == CHOOSE x \in subs : TRUE
         IN  subscribeEach(subscribeToDevice(m, sub), subs \ {sub})

\* paramSubMap.forEach(unsubscribeFromDevice) of unsubscribeAll
RECURSIVE unsubscribeEach(_, _)
unsubscribeEach(m, paramIds) ==
    IF paramIds = {} THEN m
    ELSE LET paramId == CHOOSE x \in paramIds : TRUE
         IN  unsubscribeEach(unsubscribeFromDevice(m, paramId), paramIds \ {paramId})

\* mutation of clearSubscriptions: the subscriptions are kept
clearSubscriptions_KeepSubs(m) ==
    [m EXCEPT !.paramSubDependentsMap = EmptyMap,
              !.paramAddressMap = EmptyMap]

clearSubscriptions(m) ==
    [m EXCEPT !.paramSubMap = EmptyMap,
              !.paramSubDependentsMap = EmptyMap,
              !.paramAddressMap = EmptyMap]

mgrUnsubscribeAll(m) == clearSubscriptions(unsubscribeEach(m, DOMAIN m.paramSubMap))

\* paramSubIds.forEach(...) of subscribeNodeParameters
RECURSIVE subscribeExisting(_, _)
subscribeExisting(m, paramSubIds) ==
    IF paramSubIds = {} THEN m
    ELSE LET paramSubId == CHOOSE x \in paramSubIds : TRUE
             m1 == IF paramSubId \in DOMAIN m.paramSubMap
                   THEN subscribeToDevice(m, paramSubId)
                   ELSE m
         IN  subscribeExisting(m1, paramSubIds \ {paramSubId})

\* mutation of mgrSubscribeNodeParameters: every id of the node index is subscribed
mgrSubscribeNodeParameters_Unchecked(m, node) ==
    subscribeEach(m, MapGetSet(m.nodeMap, node))

mgrSubscribeNodeParameters(m, node) ==
    subscribeExisting(m, MapGetSet(m.nodeMap, node))

\* store the manager's maps and what the call did (a call that would take the
\* manager above MaxSubs subscriptions is not made)
Commit(m, name, completed) ==
    /\ Cardinality(DOMAIN m.paramSubMap) <= MaxSubs
    /\ paramSubMap' = m.paramSubMap
    /\ paramAddressMap' = m.paramAddressMap
    /\ paramSubDependentsMap' = m.paramSubDependentsMap
    /\ nodeMap' = m.nodeMap
    /\ out' = [call |-> name, subscribed |-> m.subscribed,
               unsubscribed |-> m.unsubscribed, notified |-> m.notified,
               completed |-> completed]

IdleCall == [state |-> "idle", key |-> <<>>]
PendingCall(key) == [state |-> "pending", key |-> key]

(***************************************************************************)
(* Actions of the ParameterSubscriptionManager                             *)
(***************************************************************************)
registerDependent(dep, paramAddress, unit) ==
    /\ Commit(mgrRegisterDependent(Mgr, dep, paramAddress, unit),
              "registerDependent", {})
    /\ UNCHANGED <<listeners, timers, calls>>
    /\ UNCHANGED wdVars

deregisterDependent(dep) ==
    /\ Commit(mgrDeregisterDependent(Mgr, dep), "deregisterDependent", {})
    /\ UNCHANGED <<listeners, timers, calls>>
    /\ UNCHANGED wdVars

\* mutation of Notified: the listeners of every key fire
Notified_AnyKey(requestId) == listeners

\* the callers whose listener responseNotifier.setResponse(requestId, ..) fires
Notified(requestId) == {c \in listeners : calls[c].key = requestId}

setCachedParameterValue(paramAddress, subscriptionType, value) ==
    LET paramId == getParamSubIdFromSubscriptionType(paramAddress, subscriptionType)
        hit == Notified(paramId)
    IN  /\ Commit(mgrSetCachedParameterValue(Mgr, paramAddress, subscriptionType, value),
                  "setCachedParameterValue",
                  {Completion(c, paramId, <<value>>, "none") : c \in hit})
        /\ listeners' = listeners \ hit
        /\ timers' = SelectSeq(timers, LAMBDA c : c \notin hit)
        /\ calls' = [c \in Callers |-> IF c \in hit THEN IdleCall ELSE calls[c]]
        /\ UNCHANGED wdVars

getCachedParameterValue(paramAddress, subscriptionType) ==
    LET paramId == getParamSubIdFromSubscriptionType(paramAddress, subscriptionType)
    IN  /\ Commit(getOrCreateParameterSubscription(Mgr, paramId, paramAddress),
                  "getCachedParameterValue", {})
        /\ UNCHANGED <<listeners, timers, calls>>
        /\ UNCHANGED wdVars

\* getParameterValue up to its return or its await of responseNotifier.response
getParameterValue(c, paramAddress, subscriptionType) ==
    LET paramId == getParamSubIdFromSubscriptionType(paramAddress, subscriptionType)
        m1 == getOrCreateParameterSubscription(Mgr, paramId, paramAddress)
        cached == m1.paramSubMap[paramId].value
    IN  /\ calls[c].state = "idle"
        /\ UNCHANGED wdVars
        /\ IF cached # Null
           THEN /\ Commit(m1, "getParameterValue",
                          {Completion(c, paramId, cached, "none")})
                /\ UNCHANGED <<listeners, timers, calls>>
           ELSE /\ Commit(subscribeToDevice(m1, paramId), "getParameterValue", {})
                /\ calls' = [calls EXCEPT ![c] = PendingCall(paramId)]
                /\ listeners' = listeners \cup {c}
                /\ timers' = Append(timers, c)

\* the timeout of the oldest pending response(requestId) fires:
\* catch -> removeAllListeners(requestId) -> { data: null, error }
responseTimeout ==
    /\ timers # <<>>
    /\ LET c == Head(timers)
           requestId == calls[c].key
       IN  /\ listeners' = {x \in listeners : calls[x].key # requestId}
           /\ timers' = Tail(timers)
           /\ calls' = [calls EXCEPT ![c] = IdleCall]
           /\ out' = [call |-> "responseTimeout", subscribed |-> <<>>,
                      unsubscribed |-> <<>>, notified |-> <<>>,
                      completed |-> {Completion(c, requestId, Null, "timeout")}]
    /\ UNCHANGED <<paramSubMap, paramAddressMap, paramSubDependentsMap, nodeMap>>
    /\ UNCHANGED wdVars

unsubscribeAll ==
    /\ Commit(mgrUnsubscribeAll(Mgr), "unsubscribeAll", {})
    /\ UNCHANGED <<listeners, timers, calls>>
    /\ UNCHANGED wdVars

subscribeNodeParameters(node) ==
    /\ Commit(mgrSubscribeNodeParameters(Mgr, node), "subscribeNodeParameters", {})
    /\ UNCHANGED <<listeners, timers, calls>>
    /\ UNCHANGED wdVars

InitPSM ==
    /\ paramSubMap = EmptyMap
    /\ paramAddressMap = EmptyMap
    /\ paramSubDependentsMap = EmptyMap
    /\ nodeMap = EmptyMap
    /\ listeners = {}
    /\ timers = <<>>
    /\ calls = [c \in Callers |-> IdleCall]
    /\ out = [call |-> "constructor", subscribed |-> <<>>, unsubscribed |-> <<>>,
              notified |-> <<>>, completed |-> {}]

NextPSM ==
    \/ \E d \in Dependents, t \in Targets, u \in ParameterUnit :
           /\ parameterSubscriptionTypeFromUnit(u) = t[2]
           /\ registerDependent(d, t[1], u)
           /\ UNCHANGED <<devVars, wireVars, libVars>>
    \/ \E d \in Dependents :
           deregisterDependent(d) /\ UNCHANGED <<devVars, wireVars, libVars>>
    \/ \E t \in Targets, v \in Values :
           setCachedParameterValue(t[1], t[2], v) /\ UNCHANGED <<devVars, wireVars, libVars>>
    \/ \E t \in Targets :
           getCachedParameterValue(t[1], t[2]) /\ UNCHANGED <<devVars, wireVars, libVars>>
    \/ \E t \in Targets :
           getParameterValue(FirstCaller, t[1], t[2]) /\ UNCHANGED <<devVars, wireVars, libVars>>
    \/ responseTimeout /\ UNCHANGED <<devVars, wireVars, libVars>>

\* overlapping getParameterValue calls and the frames that answer them
NextFetch ==
    \/ \E c \in Callers, t \in Targets :
           getParameterValue(c, t[1], t[2]) /\ UNCHANGED <<devVars, wireVars, libVars>>
    \/ \E t \in Targets, v \in Values :
           setCachedParameterValue(t[1], t[2], v) /\ UNCHANGED <<devVars, wireVars, libVars>>
    \/ responseTimeout /\ UNCHANGED <<devVars, wireVars, libVars>>

\* the manager's calls with unsubscribeAll and the resubscription of a node
NextIndex ==
    \/ \E d \in Dependents, t \in Targets, u \in ParameterUnit :
           /\ parameterSubscriptionTypeFromUnit(u) = t[2]
           /\ registerDependent(d, t[1], u)
           /\ UNCHANGED <<devVars, wireVars, libVars>>
    \/ \E d \in Dependents :
           deregisterDependent(d) /\ UNCHANGED <<devVars, wireVars, libVars>>
    \/ \E t \in Targets, v \in Values :
           setCachedParameterValue(t[1], t[2], v) /\ UNCHANGED <<devVars, wireVars, libVars>>
    \/ \E t \in Targets :
           getParameterValue(FirstCaller, t[1], t[2]) /\ UNCHANGED <<devVars, wireVars, libVars>>
    \/ responseTimeout /\ UNCHANGED <<devVars, wireVars, libVars>>
    \/ unsubscribeAll /\ UNCHANGED <<devVars, wireVars, libVars>>
    \/ \E n \in Nodes :
           subscribeNodeParameters(n) /\ UNCHANGED <<devVars, wireVars, libVars>>

\* registrations, values from the device and unsubscribeAll
NextClear ==
    \/ \E d \in Dependents, t \in Targets, u \in ParameterUnit :
           /\ parameterSubscriptionTypeFromUnit(u) = t[2]
           /\ registerDependent(d, t[1], u)
           /\ UNCHANGED <<devVars, wireVars, libVars>>
    \/ \E d \in Dependents :
           deregisterDependent(d) /\ UNCHANGED <<devVars, wireVars, libVars>>
    \/ \E t \in Targets, v \in Values :
           setCachedParameterValue(t[1], t[2], v) /\ UNCHANGED <<devVars, wireVars, libVars>>
    \/ unsubscribeAll /\ UNCHANGED <<devVars, wireVars, libVars>>

(***************************************************************************)
(* connectionWatchdog: DependencyManager, NodePoller, NodeConnectionWatchdog*)
(***************************************************************************)
\* map.get(k)?.delete(x); if (map.get(k)?.size == 0) map.delete(k)
MapRemoveFromSet(f, k, x) ==
    IF k \notin DOMAIN f THEN f
    ELSE IF f[k] \ {x} = {} THEN MapDelete(f, k)
         ELSE MapSet(f, k, f[k] \ {x})

\* The watchdog with its pollers and the events emitted so far in the running step.
Wd == [nodePollerMap |-> nodePollerMap,
       dependenciesToDependents |-> dependenciesToDependents,
       dependentsToDependencies |-> dependentsToDependencies,
       connnected |-> connnected,
       running |-> wdRunning,
       stops |-> wdStops,
       events |-> <<>>, probes |-> {}, stopResolved |-> {}]

Emit(w, event) == [w EXCEPT !.events = Append(@, event)]

\* DependencyManager
addDependent(w, dependentId, dependencyId) ==
    [w EXCEPT
       !.dependenciesToDependents =
           MapSet(@, dependencyId, MapGetSet(@, dependencyId) \cup {dependentId}),
       !.dependentsToDependencies =
           MapSet(@, dependentId, MapGetSet(@, dependentId) \cup {dependencyId})]

removeDependent(w, dependentId, dependencyId) ==
    [w EXCEPT
       !.dependenciesToDependents = MapRemoveFromSet(@, dependencyId, dependentId),
       !.dependentsToDependencies = MapRemoveFromSet(@, dependentId, dependencyId)]

getDependencies(w, dependentId) == MapGetSet(w.dependentsToDependencies, dependentId)

dmHasDependents(w, dependencyId) ==
    Cardinality(MapGetSet(w.dependenciesToDependents, dependencyId)) > 0

dmHasNoDependents(w, dependencyId) == ~dmHasDependents(w, dependencyId)

\* new NodePoller(...).  pc is the position of #heartBeatLoop: "stopped" (no
\* loop), "grace" (first wait), "probing" (awaiting the heartbeat response),
\* "sleep" (poll period).  awaiting: the response listener is registered.
\* handlers: the watchdog's listeners are on poller.events.  stopWaiter: the
\* stop() call waiting for 'heartbeatStopped' (<<>> when there is none).
NodePoller ==
    [online |-> FALSE, running |-> FALSE, stopFlag |-> FALSE,
     hbCount |-> 0, hbMissed |-> 0, pc |-> "stopped",
     awaiting |-> FALSE, handlers |-> FALSE, stopWaiter |-> <<>>]

NodeOnlineStatus(online) == IF online THEN "ONLINE" ELSE "OFFLINE"
ModuleConnectionStatus(connected) == IF connected THEN "CONNECTED" ELSE "DISCONNECTED"

\* mutation of wdSetStatus: the event is emitted without the comparison
wdSetStatus_NoDiff(w, connected) ==
    Emit([w EXCEPT !.connnected = connected],
         <<"connectionStatus", ModuleConnectionStatus(connected)>>)

\* NodeConnectionWatchdog.#setStatus
wdSetStatus(w, connected) ==
    IF connected # w.connnected
    THEN Emit([w EXCEPT !.connnected = connected],
              <<"connectionStatus", ModuleConnectionStatus(connected)>>)
    ELSE w

buildNodeReport(w) ==
    [online |-> {n \in DOMAIN w.nodePollerMap : w.nodePollerMap[n].online},
     offline |-> {n \in DOMAIN w.nodePollerMap : ~w.nodePollerMap[n].online}]

interpretConnectionStatus(w, report) ==
    wdSetStatus(w, Cardinality(report.online) > 0)

handleNodeOnlineStatus(w, node, onlineStatus) ==
    Emit(interpretConnectionStatus(w, buildNodeReport(w)),
         <<"nodeOnlineStatus", node, onlineStatus>>)

\* NodePoller.setStatus; the 'onlineStatus' listener exists while handlers holds
pollerSetStatus(w, node, online) ==
    IF online # w.nodePollerMap[node].online
    THEN LET w1 == Emit([w EXCEPT !.nodePollerMap[node].online = online],
                        <<"onlineStatus", node, NodeOnlineStatus(online)>>)
         IN  IF w1.nodePollerMap[node].handlers
             THEN handleNodeOnlineStatus(w1, node, NodeOnlineStatus(online))
             ELSE w1
    ELSE w

\* NodePoller.start
pollerStart(w, node) ==
    IF ~w.nodePollerMap[node].running
    THEN Emit([w EXCEPT !.nodePollerMap[node].hbCount = 0,
                        !.nodePollerMap[node].hbMissed = 0,
                        !.nodePollerMap[node].running = TRUE,
                        !.nodePollerMap[node].pc = "grace"],
              <<"heartbeatStarted", node>>)
    ELSE w

\* the condition under which NodePoller.stop waits for 'heartbeatStopped'
stopWaits(w, node) ==
    w.nodePollerMap[node].running /\ w.nodePollerMap[node].stopFlag = FALSE

\* NodePoller.stop called by waiter: it sets the flag and waits, or returns at once
pollerStop(w, node, waiter) ==
    IF stopWaits(w, node)
    THEN [w EXCEPT !.nodePollerMap[node].stopFlag = TRUE,
                   !.nodePollerMap[node].stopWaiter = waiter]
    ELSE [w EXCEPT !.stopResolved = @ \cup {node}]

\* NodePoller.destroy after its await: events.removeAllListeners(),
\* #responseNotifier.destroy()
destroyListeners(w, node) ==
    [w EXCEPT !.nodePollerMap[node].handlers = FALSE,
              !.nodePollerMap[node].stopWaiter = <<>>,
              !.nodePollerMap[node].awaiting = FALSE]

\* NodePoller.destroy
pollerDestroy(w, node) ==
    IF stopWaits(w, node)
    THEN pollerStop(w, node, <<"destroy">>)
    ELSE destroyListeners(pollerStop(w, node, <<"destroy">>), node)

\* NodeConnectionWatchdog.stop after its await: the call has finished
watchdogStopped(w, call) ==
    Emit([w EXCEPT !.running = FALSE, !.stops[call] = [active |-> FALSE, waiting |-> {}]],
         <<"watchdogStopped">>)

\* the stop() promise a poller's 'heartbeatStopped' event resolves
resolveStopWaiter(w, node) ==
    LET waiter == w.nodePollerMap[node].stopWaiter
        w1 == [w EXCEPT !.nodePollerMap[node].stopWaiter = <<>>]
    IN  IF waiter = <<>> THEN w
        ELSE IF waiter[1] = "destroy"
        THEN destroyListeners([w1 EXCEPT !.stopResolved = @ \cup {node}], node)
        ELSE LET call == waiter[2]
                 w2 == [w1 EXCEPT !.stopResolved = @ \cup {node},
                                  !.stops[call].waiting = @ \ {node}]
             IN  IF w2.stops[call].waiting = {}
                 THEN watchdogStopped(w2, call)
                 ELSE w2

\* #heartBeatLoop after the while loop
loopExit(w, node) ==
    resolveStopWaiter(
        Emit([w EXCEPT !.nodePollerMap[node].stopFlag = FALSE,
                       !.nodePollerMap[node].running = FALSE,
                       !.nodePollerMap[node].pc = "stopped"],
             <<"heartbeatStopped", node>>),
        node)

\* #heartBeatQueryFn up to its await: the probe is sent and a response awaited
sendHeartbeat(w, node) ==
    [w EXCEPT !.probes = @ \cup {node},
              !.nodePollerMap[node].pc = "probing",
              !.nodePollerMap[node].awaiting = TRUE]

\* mutation of reachedThreshold: the streak has to exceed the threshold
reachedThreshold_Exceeds(count, threshold) == count > threshold

\* the comparison of a streak with its threshold in #heartBeatQueryFn
reachedThreshold(count, threshold) == count >= threshold

\* mutation of heartbeatHit: the miss streak is kept
heartbeatHit_KeepMissed(w, node) ==
    LET count == w.nodePollerMap[node].hbCount + 1
        w1 == Emit([w EXCEPT !.nodePollerMap[node].hbCount = count,
                             !.nodePollerMap[node].awaiting = FALSE,
                             !.nodePollerMap[node].pc = "sleep"],
                   <<"heartbeatResponse", node, count>>)
    IN  IF reachedThreshold(count, onlineThreshold)
        THEN pollerSetStatus(w1, node, TRUE)
        ELSE w1

\* #heartBeatQueryFn after a response
heartbeatHit(w, node) ==
    LET count == w.nodePollerMap[node].hbCount + 1
        w1 == Emit([w EXCEPT !.nodePollerMap[node].hbMissed = 0,
                             !.nodePollerMap[node].hbCount = count,
                             !.nodePollerMap[node].awaiting = FALSE,
                             !.nodePollerMap[node].pc = "sleep"],
                   <<"heartbeatResponse", node, count>>)
    IN  IF reachedThreshold(count, onlineThreshold)
        THEN pollerSetStatus(w1, node, TRUE)
        ELSE w1

\* #heartBeatQueryFn after a timeout
heartbeatMiss(w, node) ==
    LET count == w.nodePollerMap[node].hbMissed + 1
        w1 == Emit([w EXCEPT !.nodePollerMap[node].hbCount = 0,
                             !.nodePollerMap[node].hbMissed = count,
                             !.nodePollerMap[node].awaiting = FALSE,
                             !.nodePollerMap[node].pc = "sleep"],
                   <<"heartbeatMissed", node, count>>)
    IN  IF reachedThreshold(count, offlineThreshold)
        THEN pollerSetStatus(w1, node, FALSE)
        ELSE w1

\* mutation of setResponseDropped: the reply is kept and counted as a hit
setResponseDropped_Buffered(w, node) ==
    [w EXCEPT !.nodePollerMap[node].hbCount = @ + 1,
              !.nodePollerMap[node].hbMissed = 0]

\* ResponseNotifier.setResponse while no response() call is pending: an emit
\* without listeners
setResponseDropped(w, node) == w

\* NodeConnectionWatchdog.addNode
addNode(w, nodeAddress) ==
    IF nodeAddress \notin DOMAIN w.nodePollerMap
    THEN pollerStart(
             [w EXCEPT !.nodePollerMap =
                  MapSet(@, nodeAddress, [NodePoller EXCEPT !.handlers = TRUE])],
             nodeAddress)
    ELSE w

\* NodeConnectionWatchdog.removeNode
removeNode(w, nodeAddress) ==
    IF nodeAddress \in DOMAIN w.nodePollerMap
    THEN pollerDestroy(w, nodeAddress)
    ELSE w

\* nodes?.forEach(...) of removeNodeDependency
RECURSIVE removeEach(_, _, _)
removeEach(w, dependentId, nodes) ==
    IF nodes = {} THEN w
    ELSE LET node == CHOOSE x \in nodes : TRUE
             w1 == removeDependent(w, dependentId, node)
             w2 == IF dmHasNoDependents(w1, node) THEN removeNode(w1, node) ELSE w1
         IN  removeEach(w2, dependentId, nodes \ {node})

\* pollers.map((poller) => poller.stop()) of NodeConnectionWatchdog.stop
RECURSIVE stopEach(_, _, _)
stopEach(w, call, nodes) ==
    IF nodes = {} THEN w
    ELSE LET node == CHOOSE x \in nodes : TRUE
         IN  stopEach(pollerStop(w, node, <<"stop", call>>), call, nodes \ {node})

\* nodePollerMap.forEach((poller) => poller.start()) of NodeConnectionWatchdog.start
RECURSIVE startEach(_, _)
startEach(w, nodes) ==
    IF nodes = {} THEN w
    ELSE LET node == CHOOSE x \in nodes : TRUE
         IN  startEach(pollerStart(w, node), nodes \ {node})

\* the value of the last 'connectionStatus' event emitted
LastConnectionStatus(events, before) ==
    LET idx == {i \in DOMAIN events : events[i][1] = "connectionStatus"}
    IN  IF idx = {} THEN before
        ELSE events[CHOOSE i \in idx : \A j \in idx : j <= i][2]

\* NodeConnectionWatchdog.nodeOnline
nodeOnline(nodeAddress) ==
    IF nodeAddress \in DOMAIN nodePollerMap
    THEN nodePollerMap[nodeAddress].online
    ELSE FALSE

\* store the watchdog and what the step did
CommitWd(w, call) ==
    /\ nodePollerMap' = w.nodePollerMap
    /\ dependenciesToDependents' = w.dependenciesToDependents
    /\ dependentsToDependencies' = w.dependentsToDependencies
    /\ connnected' = w.connnected
    /\ wdRunning' = w.running
    /\ wdStops' = w.stops
    /\ connectionStatusLog' = LastConnectionStatus(w.events, connectionStatusLog)
    /\ wdOut' = [call |-> call, events |-> w.events, probes |-> w.probes,
                 stopResolved |-> w.stopResolved]
    /\ UNCHANGED psmVars

(***************************************************************************)
(* Actions of the NodeConnectionWatchdog and its pollers                   *)
(***************************************************************************)
addNodeDependency(node, dependentId) ==
    CommitWd(addNode(addDependent(Wd, dependentId, node), node),
             <<"addNodeDependency", node>>)

removeNodeDependency(dependentId) ==
    /\ getDependencies(Wd, dependentId) # {}
    /\ CommitWd(removeEach(Wd, dependentId, getDependencies(Wd, dependentId)),
                <<"removeNodeDependency", dependentId>>)

watchdogStart ==
    /\ ~wdRunning
    /\ CommitWd(startEach(Emit([Wd EXCEPT !.running = TRUE], <<"watchdogStarted">>),
                          DOMAIN nodePollerMap),
                <<"start", 0>>)

\* NodeConnectionWatchdog.stop: the call either finishes at once or waits
watchdogStop(call) ==
    /\ wdRunning
    /\ ~wdStops[call].active
    /\ LET pollers == DOMAIN nodePollerMap
           waiting == {n \in pollers : stopWaits(Wd, n)}
           w1 == stopEach(Wd, call, pollers)
       IN  IF waiting = {}
           THEN CommitWd(watchdogStopped(w1, call), <<"stop", call>>)
           ELSE CommitWd([w1 EXCEPT !.stops[call] =
                              [active |-> TRUE, waiting |-> waiting]],
                         <<"stop", call>>)

\* #heartBeatLoop: a wait has elapsed and the loop condition is evaluated
heartBeatLoop(node) ==
    /\ node \in DOMAIN nodePollerMap
    /\ nodePollerMap[node].pc \in {"grace", "sleep"}
    /\ IF nodePollerMap[node].stopFlag
       THEN CommitWd(loopExit(Wd, node), <<"heartBeatLoop", node>>)
       ELSE CommitWd(sendHeartbeat(Wd, node), <<"heartBeatLoop", node>>)

\* handleHeartbeatResponse(node, value): the reply reaches the awaiting probe
\* (a reply nobody awaits is an emit without listeners and changes nothing)
handleHeartbeatResponse(node) ==
    /\ node \in DOMAIN nodePollerMap
    /\ nodePollerMap[node].awaiting
    /\ nodePollerMap[node].hbCount < MaxStreak
    /\ CommitWd(heartbeatHit(Wd, node), <<"handleHeartbeatResponse", node>>)

\* handleHeartbeatResponse(node, value) while the poller awaits no reply (the
\* probe has timed out, or none has been sent yet)
lateHeartbeatResponse(node) ==
    /\ node \in DOMAIN nodePollerMap
    /\ ~nodePollerMap[node].awaiting
    /\ CommitWd(setResponseDropped(Wd, node), <<"lateHeartbeatResponse", node>>)

\* the timeout of the probe's response() fires
heartbeatTimeout(node) ==
    /\ node \in DOMAIN nodePollerMap
    /\ nodePollerMap[node].pc = "probing"
    /\ nodePollerMap[node].hbMissed < MaxStreak
    /\ CommitWd(heartbeatMiss(Wd, node), <<"heartbeatTimeout", node>>)

(***************************************************************************)
(* Device methods of the module instance (main.ts)                         *)
(***************************************************************************)
NoSetCall == [kind |-> "none", paramAddress |-> <<>>, unit |-> ""]
SetCall(kind, paramAddress, unit) ==
    [kind |-> kind, paramAddress |-> paramAddress, unit |-> unit]

\* a frame handed to deviceSendBuffer: <<message type, parameter address>>
Frame(messageType, paramAddress) == <<messageType, paramAddress>>
FrameNode(frame) == AddressNode(frame[2])

\* deviceSubscribeParameter: the frames it hands to deviceSendBuffer
deviceSubscribeParameter(paramId) ==
    IF ~nodeOnline(AddressNode(parameterAddress(paramId))) THEN <<>>
    ELSE IF paramId[2] = ":STD"
         THEN <<Frame("SUBSCRIBE", parameterAddress(paramId))>>
         ELSE <<Frame("SUBSCRIBE_PERCENT", parameterAddress(paramId))>>

\* deviceUnsubscribeParameter: the frames it hands to deviceSendBuffer
deviceUnsubscribeParameter(paramId) ==
    IF ~nodeOnline(AddressNode(parameterAddress(paramId))) THEN <<>>
    ELSE IF paramId[2] = ":STD"
         THEN <<Frame("UNSUBSCRIBE", parameterAddress(paramId))>>
         ELSE <<Frame("UNSUBSCRIBE_PERCENT", parameterAddress(paramId))>>

\* the frames sent by the manager's subscribe and unsubscribe callbacks of a call
RECURSIVE subscribeFrames(_)
subscribeFrames(callbacks) ==
    IF callbacks = <<>> THEN <<>>
    ELSE deviceSubscribeParameter(Head(callbacks)) \o subscribeFrames(Tail(callbacks))

RECURSIVE unsubscribeFrames(_)
unsubscribeFrames(callbacks) ==
    IF callbacks = <<>> THEN <<>>
    ELSE deviceUnsubscribeParameter(Head(callbacks)) \o unsubscribeFrames(Tail(callbacks))

callbackFrames(m) == subscribeFrames(m.subscribed) \o unsubscribeFrames(m.unsubscribed)

\* the message type deviceSetRelative and deviceSetAbsolute choose by unit
setMessageType(unit) == IF unit = "PERCENT" THEN "SET_PERCENT" ELSE "SET"

\* deviceSetAbsolute: the frames it hands to deviceSendBuffer
deviceSetAbsolute(paramAddress, unit) ==
    IF ~nodeOnline(AddressNode(paramAddress)) THEN <<>>
    ELSE <<Frame(setMessageType(unit), paramAddress)>>

\* deviceSetRelative after its await of getParameterValue
setRelativeResume(paramAddress, unit, error) ==
    IF error # "none" THEN <<>>
    ELSE <<Frame(setMessageType(unit), paramAddress)>>

updateCachedParameterValueFromDevice(m, paramAddress) ==
    subscribeEach(m, MapGetSet(m.paramAddressMap, paramAddress))

\* the set call of caller c continues with the result of its getParameterValue;
\* g is [m: the manager, sent: the set frames sent so far in the step]
resumeSetCall(g, call, error) ==
    IF call.kind = "relative"
    THEN [g EXCEPT !.sent = @ \o setRelativeResume(call.paramAddress, call.unit, error)]
    ELSE IF call.kind = "toggle" /\ error = "none"
    THEN [m |-> updateCachedParameterValueFromDevice(g.m, call.paramAddress),
          sent |-> g.sent \o deviceSetAbsolute(call.paramAddress, call.unit)]
    ELSE g

\* the listeners of one key fire in the order of their registration
RECURSIVE resumeEach(_, _)
resumeEach(g, callers) ==
    IF callers = <<>> THEN g
    ELSE resumeEach(resumeSetCall(g, setCalls[Head(callers)], "none"), Tail(callers))

\* the set call up to its return or its await of getParameterValue
deviceSet(kind, c, paramAddress, unit) ==
    LET subscriptionType == parameterSubscriptionTypeFromUnit(unit)
        paramId == getParamSubIdFromSubscriptionType(paramAddress, subscriptionType)
        m1 == getOrCreateParameterSubscription(Mgr, paramId, paramAddress)
        cached == m1.paramSubMap[paramId].value
        g == resumeSetCall([m |-> m1, sent |-> <<>>],
                           SetCall(kind, paramAddress, unit), "none")
        m2 == subscribeToDevice(m1, paramId)
    IN  /\ calls[c].state = "idle"
        /\ UNCHANGED wdVars
        /\ IF ~nodeOnline(AddressNode(paramAddress))
           THEN /\ devOut' = [call |-> kind, sent |-> <<>>]
                /\ UNCHANGED <<psmVars, setCalls>>
           ELSE IF cached # Null
           THEN /\ Commit(g.m, "getParameterValue",
                          {Completion(c, paramId, cached, "none")})
                /\ devOut' = [call |-> kind, sent |-> g.sent \o callbackFrames(g.m)]
                /\ UNCHANGED <<listeners, timers, calls, setCalls>>
           ELSE /\ Commit(m2, "getParameterValue", {})
                /\ calls' = [calls EXCEPT ![c] = PendingCall(paramId)]
                /\ listeners' = listeners \cup {c}
                /\ timers' = Append(timers, c)
                /\ setCalls' = [setCalls EXCEPT ![c] = SetCall(kind, paramAddress, unit)]
                /\ devOut' = [call |-> kind, sent |-> callbackFrames(m2)]

deviceSetRelative(c, paramAddress, unit) == deviceSet("relative", c, paramAddress, unit)

deviceSetToggle(c, paramAddress, unit) == deviceSet("toggle", c, paramAddress, unit)

\* #handleRecvData with a parameter value frame: setCachedParameterValue and
\* the set calls its setResponse resumes
handleRecvData(paramAddress, subscriptionType, value) ==
    LET paramId == getParamSubIdFromSubscriptionType(paramAddress, subscriptionType)
        hit == Notified(paramId)
        m1 == mgrSetCachedParameterValue(Mgr, paramAddress, subscriptionType, value)
        g == resumeEach([m |-> m1, sent |-> <<>>],
                        SelectSeq(timers, LAMBDA c : c \in hit))
    IN  /\ Commit(g.m, "setCachedParameterValue",
                  {Completion(c, paramId, <<value>>, "none") : c \in hit})
        /\ listeners' = listeners \ hit
        /\ timers' = SelectSeq(timers, LAMBDA c : c \notin hit)
        /\ calls' = [c \in Callers |-> IF c \in hit THEN IdleCall ELSE calls[c]]
        /\ setCalls' = [c \in Callers |-> IF c \in hit THEN NoSetCall ELSE setCalls[c]]
        /\ devOut' = [call |-> "handleRecvData", sent |-> g.sent \o callbackFrames(g.m)]
        /\ UNCHANGED wdVars

\* the getParameterValue of a set call times out: the set call returns
setCallTimeout ==
    /\ responseTimeout
    /\ setCalls' = [setCalls EXCEPT ![Head(timers)] = NoSetCall]
    /\ devOut' = [call |-> "responseTimeout", sent |-> <<>>]

InitDev ==
    /\ setCalls = [c \in Callers |-> NoSetCall]
    /\ devOut = [call |-> "constructor", sent |-> <<>>]

\* set calls on the first node, the frames that answer them and the node's probes
NextGate ==
    \/ \E c \in Callers, t \in Targets, u \in ParameterUnit :
           /\ AddressNode(t[1]) = FirstNode
           /\ u = t[2]
           /\ deviceSetRelative(c, t[1], u)
           /\ UNCHANGED <<wireVars, libVars>>
    \/ \E c \in Callers, t \in Targets, u \in ParameterUnit :
           /\ AddressNode(t[1]) = FirstNode
           /\ u = t[2]
           /\ deviceSetToggle(c, t[1], u)
           /\ UNCHANGED <<wireVars, libVars>>
    \/ \E t \in Targets, v \in Values :
           /\ AddressNode(t[1]) = FirstNode /\ handleRecvData(t[1], t[2], v)
           /\ UNCHANGED <<wireVars, libVars>>
    \/ setCallTimeout /\ UNCHANGED <<wireVars, libVars>>
    \/ \E r \in NodeReferences :
           /\ r[1] = FirstNode /\ nodePollerMap = EmptyMap
           /\ addNodeDependency(r[1], r[2]) /\ UNCHANGED <<devVars, wireVars, libVars>>
    \/ heartBeatLoop(FirstNode) /\ UNCHANGED <<devVars, wireVars, libVars>>
    \/ handleHeartbeatResponse(FirstNode) /\ UNCHANGED <<devVars, wireVars, libVars>>
    \/ heartbeatTimeout(FirstNode) /\ UNCHANGED <<devVars, wireVars, libVars>>

\* deviceSubscribeParameter as called from a listener of the watchdog's events:
\* the gate reads the pollers as the step has left them
deviceSubscribeParameterIn(w, paramId) ==
    LET node == AddressNode(parameterAddress(paramId))
        online == IF node \in DOMAIN w.nodePollerMap
                  THEN w.nodePollerMap[node].online
                  ELSE FALSE
    IN  IF ~online THEN <<>>
        ELSE IF paramId[2] = ":STD"
             THEN <<Frame("SUBSCRIBE", parameterAddress(paramId))>>
             ELSE <<Frame("SUBSCRIBE_PERCENT", parameterAddress(paramId))>>

RECURSIVE subscribeFramesIn(_, _)
subscribeFramesIn(w, callbacks) ==
    IF callbacks = <<>> THEN <<>>
    ELSE deviceSubscribeParameterIn(w, Head(callbacks))
             \o subscribeFramesIn(w, Tail(callbacks))

\* mutation of onNodeOnlineStatus: the gate reads the pollers as they were
\* before the step
onNodeOnlineStatus_GateBefore(w, event) ==
    IF event[1] = "nodeOnlineStatus" /\ event[3] = "ONLINE"
    THEN subscribeFrames(mgrSubscribeNodeParameters(Mgr, event[2]).subscribed)
    ELSE <<>>

\* the 'nodeOnlineStatus' listener of the module instance: the frames it sends
onNodeOnlineStatus(w, event) ==
    IF event[1] = "nodeOnlineStatus" /\ event[3] = "ONLINE"
    THEN subscribeFramesIn(w, mgrSubscribeNodeParameters(Mgr, event[2]).subscribed)
    ELSE <<>>

\* the frames sent by the listeners of the events a watchdog step emitted
RECURSIVE watchdogEventFrames(_, _)
watchdogEventFrames(w, events) ==
    IF events = <<>> THEN <<>>
    ELSE onNodeOnlineStatus(w, Head(events)) \o watchdogEventFrames(w, Tail(events))

\* subscribeAction / subscribeFeedback: the manager call and the frames of its
\* callbacks
moduleRegisterDependent(dep, paramAddress, unit) ==
    /\ registerDependent(dep, paramAddress, unit)
    /\ devOut' = [call |-> "registerDependent",
                  sent |-> subscribeFrames(out'.subscribed)
                               \o unsubscribeFrames(out'.unsubscribed)]
    /\ UNCHANGED setCalls

\* unsubscribeAction / unsubscribeFeedback: the manager call and the frames of
\* its callbacks
moduleDeregisterDependent(dep) ==
    /\ deregisterDependent(dep)
    /\ devOut' = [call |-> "deregisterDependent",
                  sent |-> subscribeFrames(out'.subscribed)
                               \o unsubscribeFrames(out'.unsubscribed)]
    /\ UNCHANGED setCalls

\* #handleRecvData with the reply to a probe: the poller's step and the frames
\* sent by the listeners of the events it emits
moduleHeartbeatResponse(node) ==
    /\ handleHeartbeatResponse(node)
    /\ devOut' = [call |-> "handleHeartbeatResponse",
                  sent |-> watchdogEventFrames([nodePollerMap |-> nodePollerMap'],
                                               wdOut'.events)]
    /\ UNCHANGED setCalls

\* registrations on the first node, its probes and the resynchronisation when
\* it comes online
NextResync ==
    \/ \E d \in Dependents, t \in Targets, u \in ParameterUnit :
           /\ parameterSubscriptionTypeFromUnit(u) = t[2]
           /\ AddressNode(t[1]) = FirstNode
           /\ moduleRegisterDependent(d, t[1], u)
           /\ UNCHANGED <<wireVars, libVars>>
    \/ \E d \in Dependents :
           moduleDeregisterDependent(d) /\ UNCHANGED <<wireVars, libVars>>
    \/ addNodeDependency(FirstNode, "f1") /\ UNCHANGED <<devVars, wireVars, libVars>>
    \/ removeNodeDependency("f1") /\ UNCHANGED <<devVars, wireVars, libVars>>
    \/ heartBeatLoop(FirstNode) /\ UNCHANGED <<devVars, wireVars, libVars>>
    \/ moduleHeartbeatResponse(FirstNode) /\ UNCHANGED <<wireVars, libVars>>
    \/ heartbeatTimeout(FirstNode) /\ UNCHANGED <<devVars, wireVars, libVars>>

\* the module instance between two configUpdated calls; onDevice is the set of
\* subscriptions whose last frame handed to deviceSendBuffer was a subscribe
NewInstance ==
    [phase |-> "running", configs |-> 0, awaited |-> {}, onDevice |-> {},
     loops |-> {}, kept |-> {}, connected |-> FALSE]

\* the VariableManager; variableDefinitionsMap: id -> the dependents of the definition;
\* variableDependentsMap: dependent -> ids; result: what the last call returned
NewVariableManager ==
    [variableDefinitionsMap |-> EmptyMap, variableDependentsMap |-> EmptyMap,
     result |-> [call |-> <<"constructor">>, remaining |-> {}, purged |-> {}]]

\* the subscription a subscribe or unsubscribe frame is about
FrameSubscription(frame) ==
    <<frame[2], IF frame[1] \in {"SUBSCRIBE", "UNSUBSCRIBE"} THEN "RAW" ELSE "PERCENT">>

\* the subscriptions left on the device after the frames
RECURSIVE deviceAfter(_, _)
deviceAfter(onDevice, frames) ==
    IF frames = <<>> THEN onDevice
    ELSE LET frame == Head(frames)
         IN  deviceAfter(IF frame[1] \in {"SUBSCRIBE", "SUBSCRIBE_PERCENT"}
                         THEN onDevice \cup {FrameSubscription(frame)}
                         ELSE IF frame[1] \in {"UNSUBSCRIBE", "UNSUBSCRIBE_PERCENT"}
                         THEN onDevice \ {FrameSubscription(frame)}
                         ELSE onDevice,
                         Tail(frames))

\* deviceSendBuffer seen from the device
deviceSendBuffer(frames) ==
    instance' = [instance EXCEPT !.onDevice = deviceAfter(@, frames)]

\* pollers.map((poller) => poller.destroy()) of NodeConnectionWatchdog.destroy
RECURSIVE destroyEach(_, _)
destroyEach(w, nodes) ==
    IF nodes = {} THEN w
    ELSE LET node == CHOOSE x \in nodes : TRUE
         IN  destroyEach(pollerDestroy(w, node), nodes \ {node})

\* configUpdated up to the await in NodeConnectionWatchdog.destroy: every
\* poller's destroy() is called and the call waits for those that wait
configUpdated ==
    /\ instance.phase = "running"
    /\ instance.configs < MaxConfigs
    /\ CommitWd(destroyEach(Wd, DOMAIN nodePollerMap), <<"destroy", 0>>)
    /\ instance' = [instance EXCEPT
           !.phase = "destroying",
           !.configs = @ + 1,
           !.awaited = {n \in DOMAIN nodePollerMap : stopWaits(Wd, n)}]
    /\ UNCHANGED <<devVars, wireVars, pa, conv, setter, host, vm>>

\* destroy after its await: parameterSubscriptionManager.unsubscribeAll() and
\* the frames of its callbacks
destroyUnsubscribeAll(m) ==
    unsubscribeFrames(mgrUnsubscribeAll(m).unsubscribed)

\* configUpdated after the await: the rest of destroy(), then init() with the
\* new manager and the new watchdog
configUpdatedResume ==
    /\ instance.phase = "destroying"
    /\ instance.awaited = {}
    /\ LET frames == destroyUnsubscribeAll(Mgr)
           onDevice == deviceAfter(instance.onDevice, frames)
       IN  /\ devOut' = [call |-> "configUpdated", sent |-> frames]
           /\ instance' = [instance EXCEPT
                  !.phase = "running",
                  !.onDevice = onDevice,
                  !.kept = onDevice,
                  !.loops = {n \in DOMAIN nodePollerMap : nodePollerMap[n].running}]
    /\ paramSubMap' = EmptyMap
    /\ paramAddressMap' = EmptyMap
    /\ paramSubDependentsMap' = EmptyMap
    /\ nodeMap' = EmptyMap
    /\ listeners' = {}
    /\ timers' = <<>>
    /\ calls' = [c \in Callers |-> IdleCall]
    /\ out' = [call |-> "constructor", subscribed |-> <<>>, unsubscribed |-> <<>>,
               notified |-> <<>>, completed |-> {}]
    /\ nodePollerMap' = EmptyMap
    /\ dependenciesToDependents' = EmptyMap
    /\ dependentsToDependencies' = EmptyMap
    /\ connnected' = FALSE
    /\ wdRunning' = FALSE
    /\ wdStops' = [c \in StopCalls |-> [active |-> FALSE, waiting |-> {}]]
    /\ connectionStatusLog' = "NONE"
    /\ wdOut' = [call |-> <<"constructor", 0>>, events |-> <<>>, probes |-> {},
                 stopResolved |-> {}]
    /\ UNCHANGED <<setCalls, wireVars, pa, conv, setter, host, vm>>

\* a step of the old watchdog while destroy() waits for it
awaitedStep(A) ==
    /\ A
    /\ instance' = [instance EXCEPT !.awaited = @ \ wdOut'.stopResolved]
    /\ UNCHANGED <<devVars, wireVars, pa, conv, setter, host, vm>>

\* a step of the manager with the frames of its callbacks
sendingStep(A) ==
    /\ A
    /\ deviceSendBuffer(devOut'.sent)
    /\ UNCHANGED <<wireVars, pa, conv, setter, host, vm>>

\* registrations on the first node, its probes, and configUpdated
NextReconfig ==
    \/ \E d \in Dependents, t \in Targets, u \in ParameterUnit :
           /\ parameterSubscriptionTypeFromUnit(u) = t[2]
           /\ AddressNode(t[1]) = FirstNode
           /\ instance.phase = "running"
           /\ sendingStep(moduleRegisterDependent(d, t[1], u))
    \/ /\ instance.phase = "running"
       /\ awaitedStep(addNodeDependency(FirstNode, "f1"))
    \/ /\ instance.phase = "running"
       /\ awaitedStep(removeNodeDependency("f1"))
    \/ awaitedStep(heartBeatLoop(FirstNode))
    \/ sendingStep(moduleHeartbeatResponse(FirstNode))
    \/ awaitedStep(heartbeatTimeout(FirstNode))
    \/ configUpdated
    \/ configUpdatedResume

\* the reserved parameter the watchdog probes (Time)
WATCHDOG_TIME_PARAMETER == "0.0.0.0.2"

\* the addresses of the messages a device sends: a parameter of the first
\* node and the heartbeat address of every node
RecvAddresses ==
    {a \in ParameterAddresses : AddressNode(a) = FirstNode}
        \cup {<<n, WATCHDOG_TIME_PARAMETER>> : n \in Nodes}

\* mutation of isHeartbeatMessage: the address is not compared
isHeartbeatMessage_NoCompare(msg_type, address) == FALSE

\* #handleRecvData: parsedMsg.address.toString() == hearbeatMsg in case SET
isHeartbeatMessage(msg_type, address) ==
    /\ msg_type = "SET"
    /\ address = <<AddressNode(address), WATCHDOG_TIME_PARAMETER>>

\* connectionWatchdog.handleHeartbeatResponse(node, value) as #handleRecvData
\* calls it: the poller awaits the reply, awaits none, or does not exist
watchdogHandleHeartbeatResponse(node) ==
    \/ moduleHeartbeatResponse(node)
    \/ lateHeartbeatResponse(node) /\ UNCHANGED devVars
    \/ /\ node \notin DOMAIN nodePollerMap
       /\ CommitWd(Wd, <<"lateHeartbeatResponse", node>>)
       /\ UNCHANGED devVars

\* #handleRecvData for one parsed message
handleRecvMessage(msg_type, address, value) ==
    IF isHeartbeatMessage(msg_type, address)
    THEN watchdogHandleHeartbeatResponse(AddressNode(address))
    ELSE handleRecvData(address, IF msg_type = "SET" THEN "RAW" ELSE "PERCENT", value)

\* a registration, the first node's probes and the messages of the device
NextRecv ==
    \/ \E a \in RecvAddresses :
           /\ a \in ParameterAddresses
           /\ moduleRegisterDependent(<<"FEEDBACK", "f1">>, a, "RAW")
           /\ UNCHANGED <<wireVars, libVars>>
    \/ addNodeDependency(FirstNode, "f1") /\ UNCHANGED <<devVars, wireVars, libVars>>
    \/ heartBeatLoop(FirstNode) /\ UNCHANGED <<devVars, wireVars, libVars>>
    \/ \E msg_type \in {"SET", "SET_PERCENT"}, a \in RecvAddresses, v \in Values :
           handleRecvMessage(msg_type, a, v) /\ UNCHANGED <<wireVars, libVars>>

(***************************************************************************)
(* Wire format (sweb.ts) and the receive path of the module instance       *)
(***************************************************************************)
\* byte values the commands are made of: the reserved bytes STX, ETX, ACK,
\* NAK and ESC, and some others
PayloadBytes == {0, 1, 2, 3, 6, 21, 27, 128, 130}
\* byte values a byte of a frame is replaced by
TamperBytes == PayloadBytes \cup {131, 134, 149, 155, 255}

RECURSIVE SeqsUpTo(_, _)
SeqsUpTo(S, n) ==
    IF n = 0 THEN {<<>>}
    ELSE LET shorter == SeqsUpTo(S, n - 1)
         IN  shorter \cup {Append(q, b) : q \in {x \in shorter : Len(x) = n - 1}, b \in S}

Payloads == SeqsUpTo(PayloadBytes, MaxLen)
RxPayloads == SeqsUpTo(PayloadBytes, MaxRxLen)

\* a ^ b on bytes
RECURSIVE Xor(_, _)
Xor(a, b) ==
    IF a = 0 /\ b = 0 THEN 0
    ELSE (((a % 2) + (b % 2)) % 2) + 2 * Xor(a \div 2, b \div 2)

\* mutation of substituteByte: the escape byte itself is not substituted
substituteByte_EscapeKept(b) ==
    IF b = 2 THEN <<27, 130>>
    ELSE IF b = 3 THEN <<27, 131>>
    ELSE IF b = 6 THEN <<27, 134>>
    ELSE IF b = 21 THEN <<27, 149>>
    ELSE <<b>>

\* the switch of byteSubstitute
substituteByte(b) ==
    IF b = 2 THEN <<27, 130>>
    ELSE IF b = 3 THEN <<27, 131>>
    ELSE IF b = 6 THEN <<27, 134>>
    ELSE IF b = 21 THEN <<27, 149>>
    ELSE IF b = 27 THEN <<27, 155>>
    ELSE <<b>>

RECURSIVE byteSubstitute(_)
byteSubstitute(buf) ==
    IF buf = <<>> THEN <<>>
    ELSE substituteByte(Head(buf)) \o byteSubstitute(Tail(buf))

\* the switch of byteUnsubstitute: an unknown code pushes nothing
unsubstituteByte(code) ==
    IF code = 130 THEN <<2>>
    ELSE IF code = 131 THEN <<3>>
    ELSE IF code = 134 THEN <<6>>
    ELSE IF code = 149 THEN <<21>>
    ELSE IF code = 155 THEN <<27>>
    ELSE <<>>

\* the loop of byteUnsubstitute from index i (buf[i] past the end is undefined)
RECURSIVE unsubstituteFrom(_, _)
unsubstituteFrom(buf, i) ==
    IF i > Len(buf) THEN <<>>
    ELSE IF buf[i] = 27
    THEN (IF i + 1 <= Len(buf) THEN unsubstituteByte(buf[i + 1]) ELSE <<>>)
             \o unsubstituteFrom(buf, i + 2)
    ELSE <<buf[i]>> \o unsubstituteFrom(buf, i + 1)

byteUnsubstitute(buf) == unsubstituteFrom(buf, 1)

RECURSIVE calculateChecksum(_)
calculateChecksum(buf) ==
    IF buf = <<>> THEN 0
    ELSE Xor(Head(buf), calculateChecksum(Tail(buf)))

encapsulateCommand(buf) ==
    <<2>> \o byteSubstitute(buf \o <<calculateChecksum(buf)>>) \o <<3>>

\* the result of decapsulateCommand: null, or the command
DecapsulateNull == [ok |-> FALSE, command |-> <<>>]
Decapsulated(command) == [ok |-> TRUE, command |-> command]

\* buf.subarray(1, buf.length - 1)
Inner(buf) == SubSeq(buf, 2, Len(buf) - 1)

decapsulateCommand(buf) ==
    LET temp == byteUnsubstitute(Inner(buf))
        tempCommand == SubSeq(temp, 1, Len(temp) - 1)
    IN  IF temp # <<>> /\ temp[Len(temp)] = calculateChecksum(tempCommand)
        THEN Decapsulated(tempCommand)
        ELSE DecapsulateNull

\* recvBuffer.indexOf(0x02), 0 when there is none
IndexOfStx(recvBuffer) ==
    IF \E i \in DOMAIN recvBuffer : recvBuffer[i] = 2
    THEN CHOOSE i \in DOMAIN recvBuffer :
             recvBuffer[i] = 2 /\ \A j \in 1..(i - 1) : recvBuffer[j] # 2
    ELSE 0

\* the loop of #parseReceivedData from byte i on
RECURSIVE parseFrom(_, _, _, _)
parseFrom(data, i, recvBuffer, returnedMessages) ==
    IF i > Len(data) THEN returnedMessages
    ELSE LET buffer == Append(recvBuffer, data[i])
             stxIdx == IndexOfStx(buffer)
             decapsulatedCmd == decapsulateCommand(SubSeq(buffer, stxIdx, Len(buffer)))
         IN  IF data[i] # 3
             THEN parseFrom(data, i + 1, buffer, returnedMessages)
             ELSE IF stxIdx = 0
             THEN parseFrom(data, i + 1, <<>>, returnedMessages)
             ELSE IF ~decapsulatedCmd.ok
             THEN parseFrom(data, i + 1, buffer, returnedMessages)
             ELSE parseFrom(data, i + 1, <<>>,
                            Append(returnedMessages, decapsulatedCmd.command))

parseReceivedData(data) == parseFrom(data, 1, <<>>, <<>>)

\* the same loop, collecting every encapsulatedCmd it hands to decapsulateCommand
RECURSIVE handedFrom(_, _, _, _)
handedFrom(data, i, recvBuffer, handed) ==
    IF i > Len(data) THEN handed
    ELSE LET buffer == Append(recvBuffer, data[i])
             stxIdx == IndexOfStx(buffer)
             encapsulatedCmd == SubSeq(buffer, stxIdx, Len(buffer))
         IN  IF data[i] # 3
             THEN handedFrom(data, i + 1, buffer, handed)
             ELSE IF stxIdx = 0
             THEN handedFrom(data, i + 1, <<>>, handed)
             ELSE IF ~decapsulateCommand(encapsulatedCmd).ok
             THEN handedFrom(data, i + 1, buffer, Append(handed, encapsulatedCmd))
             ELSE handedFrom(data, i + 1, <<>>, Append(handed, encapsulatedCmd))

encapsulatedCmds(data) == handedFrom(data, 1, <<>>, <<>>)

\* a frame as the device sends it, with the checksum byte given
ReceivedFrame(command, checksum) ==
    <<2>> \o byteSubstitute(command \o <<checksum>>) \o <<3>>

NewCodec(payload) ==
    [payload |-> payload, frame |-> <<>>, tampered |-> FALSE, result |-> <<>>]

EmptyRx ==
    [frames |-> <<>>, chunk |-> <<>>, parsed |-> FALSE, messages |-> <<>>,
     handed |-> <<>>]

\* the command is encapsulated
encapsulate ==
    /\ codec.frame = <<>>
    /\ codec' = [codec EXCEPT !.frame = encapsulateCommand(codec.payload)]
    /\ UNCHANGED <<psmVars, wdVars, devVars, rx, libVars>>

\* one byte of the frame is replaced on the way
tamper(i, b) ==
    /\ ~codec.tampered
    /\ codec.result = <<>>
    /\ i \in DOMAIN codec.frame
    /\ b # codec.frame[i]
    /\ codec' = [codec EXCEPT !.frame[i] = b, !.tampered = TRUE]
    /\ UNCHANGED <<psmVars, wdVars, devVars, rx, libVars>>

\* the frame is decapsulated
decapsulate ==
    /\ codec.frame # <<>>
    /\ codec.result = <<>>
    /\ codec' = [codec EXCEPT !.result = <<decapsulateCommand(codec.frame)>>]
    /\ UNCHANGED <<psmVars, wdVars, devVars, rx, libVars>>

\* a frame with the given checksum byte is added to the chunk the socket delivers
receiveFrame(command, checksum) ==
    /\ ~rx.parsed
    /\ Len(rx.frames) < MaxFrames
    /\ rx' = [rx EXCEPT
                !.frames = Append(@, [command |-> command,
                                       good |-> checksum = calculateChecksum(command)]),
                !.chunk = @ \o ReceivedFrame(command, checksum)]
    /\ UNCHANGED <<psmVars, wdVars, devVars, codec, libVars>>

\* the 'data' handler of the socket parses the chunk
receiveData ==
    /\ ~rx.parsed
    /\ rx.frames # <<>>
    /\ rx' = [rx EXCEPT !.parsed = TRUE, !.messages = parseReceivedData(rx.chunk),
                         !.handed = encapsulatedCmds(rx.chunk)]
    /\ UNCHANGED <<psmVars, wdVars, devVars, codec, libVars>>

\* the first k bytes of a frame are added to the chunk: the rest of the frame
\* was lost on the way
receiveTruncated(command, k) ==
    /\ ~rx.parsed
    /\ Len(rx.frames) < MaxFrames
    /\ k \in 1..(Len(encapsulateCommand(command)) - 1)
    /\ rx' = [rx EXCEPT
                !.frames = Append(@, [command |-> command, good |-> FALSE]),
                !.chunk = @ \o SubSeq(encapsulateCommand(command), 1, k)]
    /\ UNCHANGED <<psmVars, wdVars, devVars, codec, libVars>>

\* a 'data' event of the socket with the next k bytes of the stream: the
\* handler parses them, and the rest of the stream comes with later events
receiveDataEvent(k) ==
    /\ ~rx.parsed
    /\ k \in 1..Len(rx.chunk)
    /\ rx' = [rx EXCEPT
                !.chunk = SubSeq(@, k + 1, Len(@)),
                !.messages = @ \o parseReceivedData(SubSeq(rx.chunk, 1, k)),
                !.handed = @ \o encapsulatedCmds(SubSeq(rx.chunk, 1, k)),
                !.parsed = k = Len(rx.chunk)]
    /\ UNCHANGED <<psmVars, wdVars, devVars, codec, libVars>>

InitWire ==
    /\ codec = NewCodec(<<>>)
    /\ rx = EmptyRx

NextCodec ==
    \/ encapsulate
    \/ \E i \in 1..(2 * MaxLen + 4), b \in TamperBytes : tamper(i, b)
    \/ decapsulate

NextRx ==
    \/ \E command \in RxPayloads, checksum \in PayloadBytes :
           receiveFrame(command, checksum)
    \/ receiveData

\* chunks of well-formed frames and of frames cut short
NextSplit ==
    \/ \E command \in RxPayloads :
           receiveFrame(command, calculateChecksum(command))
    \/ \E command \in RxPayloads, k \in 1..(2 * MaxRxLen + 3) :
           receiveTruncated(command, k)
    \/ receiveData

\* a stream of well-formed frames that the socket delivers in 'data' events
\* of any length
NextStream ==
    \/ \E command \in RxPayloads :
           receiveFrame(command, calculateChecksum(command))
    \/ \E k \in 1..(MaxFrames * (2 * MaxRxLen + 4)) : receiveDataEvent(k)

(***************************************************************************)
(* ParameterAddress (sweb.ts)                                              *)
(***************************************************************************)
\* one '.'-separated field of an address string: a decimal numeral, or a
\* hexadecimal numeral after the prefix 0x, given by its digits
Dec(digits) == [hex |-> FALSE, digits |-> digits]
Hex(digits) == [hex |-> TRUE, digits |-> digits]

NodeTokens == {Dec(<<9, 9, 9>>), Hex(<<0, 3, 14, 7>>), Dec(<<6, 5, 5, 3, 6>>)}
VdTokens == {Dec(<<3>>), Hex(<<0, 3>>), Dec(<<2, 5, 6>>)}
OctetTokens == {Dec(<<0>>), Dec(<<1>>), Hex(<<0, 1>>), Dec(<<2, 5, 6>>)}
ObjectTokens == {Dec(<<2, 5, 7>>), Hex(<<0, 0, 0, 1, 0, 1>>),
                 Hex(<<1, 0, 0, 0, 1, 0, 1>>)}
FqObjectTokens == {Hex(<<0, 3, 14, 7, 0, 3, 0, 0, 0, 1, 0, 1>>),
                   Hex(<<3, 14, 7, 0, 3, 0, 0, 0, 1, 0, 1>>),
                   Hex(<<1, 0, 3, 14, 7, 0, 3, 0, 0, 0, 1, 0, 1>>),
                   Dec(<<6, 5, 7, 9, 3>>)}
ParamTokens == {Dec(<<0>>), Hex(<<0, 0>>), Dec(<<6, 5, 5, 3, 6>>)}

\* the address strings fromString is called with, split at the dots
AddressStrings ==
    {<<n, v, a, b, c, p>> : n \in NodeTokens, v \in VdTokens, a \in OctetTokens,
                            b \in OctetTokens, c \in OctetTokens, p \in ParamTokens}
    \cup {<<n, v, o, p>> : n \in NodeTokens, v \in VdTokens, o \in ObjectTokens,
                           p \in ParamTokens}
    \cup {<<f, p>> : f \in FqObjectTokens, p \in ParamTokens}

RECURSIVE NumeralValue(_, _)
NumeralValue(digits, base) ==
    IF digits = <<>> THEN 0
    ELSE NumeralValue(SubSeq(digits, 1, Len(digits) - 1), base) * base
             + digits[Len(digits)]

\* z.coerce.number(): Number(part)
CoerceNumber(part) == NumeralValue(part.digits, IF part.hex THEN 16 ELSE 10)

\* z.coerce.bigint() of a hexadecimal numeral: its bytes, lowest first
RECURSIVE CoerceBigint(_)
CoerceBigint(digits) ==
    IF digits = <<>> THEN <<>>
    ELSE IF Len(digits) = 1 THEN <<digits[1]>>
    ELSE <<digits[Len(digits) - 1] * 16 + digits[Len(digits)]>>
             \o CoerceBigint(SubSeq(digits, 1, Len(digits) - 2))

\* (input >> (8 * i)) & 0xff of a bigint
BigintByte(bytes, i) == IF i + 1 \in DOMAIN bytes THEN bytes[i + 1] ELSE 0

ParameterAddressParsingError == [ok |-> FALSE, address |-> <<>>]

Parsed(node, vd, obj, param) ==
    [ok |-> TRUE, address |-> [node |-> node, vd |-> vd, obj |-> obj, param |-> param]]

\* FQ_PARAM_ADDR_REGEXP on the fields of the string
MatchesFormat(parts) ==
    \/ Len(parts) = 6 /\ \A i \in 3..5 : ~parts[i].hex
    \/ Len(parts) = 4
    \/ Len(parts) = 2 /\ parts[1].hex

\* z.coerce.number().gte(0).lte(max).parse(part) succeeds
InRange(part, max) == CoerceNumber(part) <= max

\* (input >> 16) & 0xff, (input >> 8) & 0xff, input & 0xff
objectAddressToOctets(input) ==
    <<(input \div 65536) % 256, (input \div 256) % 256, input % 256>>

partsFromFqObjectAddr(input) ==
    [node |-> BigintByte(input, 5) * 256 + BigintByte(input, 4),
     vd |-> BigintByte(input, 3),
     obj |-> <<BigintByte(input, 2), BigintByte(input, 1), BigintByte(input, 0)>>]

fromString(parts) ==
    IF ~MatchesFormat(parts) THEN ParameterAddressParsingError
    ELSE IF Len(parts) = 6
    THEN IF /\ InRange(parts[1], 65535) /\ InRange(parts[2], 255)
            /\ \A i \in 3..5 : InRange(parts[i], 255)
            /\ InRange(parts[6], 65535)
         THEN Parsed(CoerceNumber(parts[1]), CoerceNumber(parts[2]),
                     <<CoerceNumber(parts[3]), CoerceNumber(parts[4]),
                       CoerceNumber(parts[5])>>,
                     CoerceNumber(parts[6]))
         ELSE ParameterAddressParsingError
    ELSE IF Len(parts) = 4
    THEN IF /\ InRange(parts[1], 65535) /\ InRange(parts[2], 255)
            /\ InRange(parts[4], 65535)
         THEN Parsed(CoerceNumber(parts[1]), CoerceNumber(parts[2]),
                     objectAddressToOctets(CoerceNumber(parts[3])),
                     CoerceNumber(parts[4]))
         ELSE ParameterAddressParsingError
    ELSE LET fq == partsFromFqObjectAddr(CoerceBigint(parts[1].digits))
         IN  IF InRange(parts[2], 65535)
             THEN Parsed(fq.node, fq.vd, fq.obj, CoerceNumber(parts[2]))
             ELSE ParameterAddressParsingError

toBuf(a) ==
    <<a.node \div 256, a.node % 256, a.vd, a.obj[1], a.obj[2], a.obj[3],
      a.param \div 256, a.param % 256>>

fromBuf(buf) ==
    [node |-> buf[1] * 256 + buf[2], vd |-> buf[3],
     obj |-> <<buf[4], buf[5], buf[6]>>, param |-> buf[7] * 256 + buf[8]]

NewAddress(parts) == [text |-> parts, parsed |-> <<>>, buf |-> <<>>, back |-> <<>>]

\* ParameterAddress.fromString(addrStr)
parseAddress ==
    /\ pa.parsed = <<>>
    /\ pa' = [pa EXCEPT !.parsed = <<fromString(pa.text)>>]
    /\ UNCHANGED <<psmVars, wdVars, devVars, wireVars, conv, setter, host, instance, vm>>

\* paramAddress.toBuf() when a frame is built
addressToBuf ==
    /\ pa.parsed # <<>>
    /\ pa.parsed[1].ok
    /\ pa.buf = <<>>
    /\ pa' = [pa EXCEPT !.buf = toBuf(pa.parsed[1].address)]
    /\ UNCHANGED <<psmVars, wdVars, devVars, wireVars, conv, setter, host, instance, vm>>

\* ParameterAddress.fromBuf(buf) when a frame is received
addressFromBuf ==
    /\ pa.buf # <<>>
    /\ pa.back = <<>>
    /\ pa' = [pa EXCEPT !.back = <<fromBuf(pa.buf)>>]
    /\ UNCHANGED <<psmVars, wdVars, devVars, wireVars, conv, setter, host, instance, vm>>

NextAddress ==
    \/ parseAddress
    \/ addressToBuf
    \/ addressFromBuf

(***************************************************************************)
(* Unit conversions (sweb.ts, variables, options)                          *)
(* Numbers are fixed point: percentages and dB values in thousandths, the  *)
(* raw value of a percentage in 25ths, the raw value of a dB value in      *)
(* thousandths. Math.round absorbs the floating point error of the         *)
(* divisions and multiplications by 100.                                   *)
(***************************************************************************)
MINIMUM_GAIN_RAW_VALUE == -280617

\* Math.round(n / d) for d > 0
RoundDiv(n, d) == (2 * n + d) \div (2 * d)

percentToRaw_NoClamp(percent) == RoundDiv(percent, 10) * 16384

percentToRaw(percent) ==
    LET upper == IF percent > 100000 THEN 100000 ELSE percent
        clamped == IF upper < 0 THEN 0 ELSE upper
    IN  RoundDiv(clamped, 10) * 16384

rawToPercent(rawValue) == RoundDiv(rawValue, 16384) * 10

\* the value of a dB option: the string '-inf' or a number
DbInf == [inf |-> TRUE, db |-> 0]
Db(n) == [inf |-> FALSE, db |-> n]

\* -Math.log10(Math.abs(dbValue / 10)) * 200000 - 100000 on the dB values
\* (in hundredths) of the model
LogRaw(dbValue) ==
    CASE dbValue = -8000 -> -280617997
      [] dbValue = -7999 -> -280607139
      [] dbValue = -2000 -> -160205999
      [] dbValue = -1001 -> -100086815

\* -10 * Math.pow(10, Math.abs(rawValue + 100000) / 200000), rounded to
\* hundredths, on the raw values of the model
PowDb(rawValue) ==
    CASE rawValue = -280618 -> -8000
      [] rawValue = -280617 -> -8000
      [] rawValue = -280616 -> -8000
      [] rawValue = -160206 -> -2000
      [] rawValue = -100001 -> -1000

parseDbInput(input) == IF input.inf THEN Db(-80000) ELSE input

dbToRaw_Sentinel(dbValue) ==
    IF dbValue.inf THEN MINIMUM_GAIN_RAW_VALUE * 1000
    ELSE LET rounded == RoundDiv(dbValue.db, 10)
         IN  IF rounded >= -1000 THEN rounded * 100000 ELSE LogRaw(rounded)

dbToRaw(dbValue) ==
    LET number == IF dbValue.inf THEN -80000 ELSE dbValue.db
        rounded == RoundDiv(number, 10)
    IN  IF rounded >= -1000 THEN rounded * 100000 ELSE LogRaw(rounded)

\* a dB value in hundredths
rawToDb(rawValue) ==
    IF rawValue >= -100000 THEN RoundDiv(rawValue, 100) ELSE PowDb(rawValue)

\* what a variable shows: the text '-inf' or a number
ShownInf == [text |-> "-inf"]
ShownNumber(n) == [number |-> n]

\* DBParameterVariableDefinition.getVariableValue
getVariableValue(rawValue) ==
    IF rawValue = MINIMUM_GAIN_RAW_VALUE THEN ShownInf
    ELSE ShownNumber(RoundDiv(rawToDb(rawValue), 1))

PercentInputs ==
    {1000 * p : p \in 0..100}
    \cup {-1000, -1, 1, 4, 5, 33333, 50005, 99996, 100001, 150000}
DbInputs ==
    {DbInf} \cup {Db(n) : n \in {-80000, -80001, -79990, -20000, -10010, -10000,
                                  -5, 0, 10000}}
RawInputs == {-280618, -280617, -280616, -160206, -100001, -100000, -50, 0, 100000}

NewConversion(kind, input) ==
    [kind |-> kind, input |-> input, parsed |-> <<>>, result |-> <<>>, back |-> <<>>]

\* convertUnitToRaw(value, PERCENT)
encodePercent ==
    /\ conv.kind = "percent"
    /\ conv.result = <<>>
    /\ conv' = [conv EXCEPT !.result = <<percentToRaw(conv.input)>>]
    /\ UNCHANGED <<psmVars, wdVars, devVars, wireVars, pa, setter, host, instance, vm>>

\* convertRawToUnit(value, PERCENT)
decodePercent ==
    /\ conv.kind = "percent"
    /\ conv.result # <<>>
    /\ conv.back = <<>>
    /\ conv' = [conv EXCEPT !.back = <<rawToPercent(conv.result[1])>>]
    /\ UNCHANGED <<psmVars, wdVars, devVars, wireVars, pa, setter, host, instance, vm>>

\* the value option of a set action is parsed
enterDb ==
    /\ conv.kind = "db"
    /\ conv.parsed = <<>>
    /\ conv.result = <<>>
    /\ conv' = [conv EXCEPT !.parsed = <<parseDbInput(conv.input)>>]
    /\ UNCHANGED <<psmVars, wdVars, devVars, wireVars, pa, setter, host, instance, vm>>

\* convertUnitToRaw(value, DB) on the parsed option, or on the value as given
encodeDb ==
    /\ conv.kind = "db"
    /\ conv.result = <<>>
    /\ conv' = [conv EXCEPT !.result =
                   <<dbToRaw(IF conv.parsed # <<>> THEN conv.parsed[1] ELSE conv.input)>>]
    /\ UNCHANGED <<psmVars, wdVars, devVars, wireVars, pa, setter, host, instance, vm>>

\* the dB variable of a parameter gets the cached raw value
displayDb ==
    /\ conv.kind = "raw"
    /\ conv.result = <<>>
    /\ conv' = [conv EXCEPT !.result = <<getVariableValue(conv.input)>>]
    /\ UNCHANGED <<psmVars, wdVars, devVars, wireVars, pa, setter, host, instance, vm>>

NextConversion ==
    \/ encodePercent
    \/ decodePercent
    \/ enterDb
    \/ encodeDb
    \/ displayDb

(***************************************************************************)
(* ModuleVariableSetter (variables)                                        *)
(***************************************************************************)
VariableIds == {"1.3.0.1.1.0-RAW", "1.3.0.1.1.0-DB"}
\* the values objects setVariableValues is called with
VariableValues ==
    UNION {[ids -> Values] : ids \in SUBSET VariableIds}

\* what the host is handed: setVariableDefinitions(defs) or setVariableValues(values)
DefinitionsPublication(defs) == [kind |-> "definitions", defs |-> defs, values |-> EmptyMap]
ValuesPublication(values) == [kind |-> "values", defs |-> {}, values |-> values]

NewSetter ==
    [commitedDefinitions |-> {}, adding |-> {}, removing |-> {},
     bufferedValues |-> EmptyMap, buffered |-> FALSE]

\* #setDefinitions(): sets off the timeout unless it is already running
setDefinitions(s) == [s EXCEPT !.buffered = TRUE]

setterAddVariableDefinition(s, id) ==
    IF id \notin s.commitedDefinitions
    THEN setDefinitions([s EXCEPT !.adding = @ \cup {id}, !.removing = @ \ {id}])
    ELSE IF id \in s.removing
    THEN [s EXCEPT !.removing = @ \ {id}]
    ELSE s

setterRemoveVariableDefinition_KeepAdding(s, id) ==
    IF id \in s.commitedDefinitions
    THEN setDefinitions([s EXCEPT !.removing = @ \cup {id}, !.adding = @ \ {id}])
    ELSE s

setterRemoveVariableDefinition(s, id) ==
    IF id \in s.commitedDefinitions
    THEN setDefinitions([s EXCEPT !.removing = @ \cup {id}, !.adding = @ \ {id}])
    ELSE IF id \in s.adding
    THEN [s EXCEPT !.adding = @ \ {id}]
    ELSE s

\* #setBufferedVariableValues(): the publications it makes
setBufferedVariableValues(s) ==
    IF DOMAIN s.bufferedValues # {} THEN <<ValuesPublication(s.bufferedValues)>>
    ELSE <<>>

\* #resetBuffer()
resetBuffer(s) ==
    [s EXCEPT !.adding = {}, !.removing = {}, !.bufferedValues = EmptyMap,
              !.buffered = FALSE]

\* #setDefinitionsToModule(): the setter afterwards and the publications made
setDefinitionsToModule(s) ==
    LET commited == (s.commitedDefinitions \ s.removing) \cup s.adding
        t == [s EXCEPT !.commitedDefinitions = commited]
    IN  [setter |-> resetBuffer(t),
         published |-> <<DefinitionsPublication(commited)>>
                           \o setBufferedVariableValues(t)]

\* setVariableValues(values): the setter afterwards and the publications made
setterSetVariableValues(s, values) ==
    LET now == DOMAIN values \cap s.commitedDefinitions
        held == (DOMAIN values \ s.commitedDefinitions) \cap s.adding
        valuesToSetNow == [id \in now |-> values[id]]
    IN  [setter |-> [s EXCEPT !.bufferedValues =
                        [id \in DOMAIN @ \cup held |->
                            IF id \in held THEN values[id] ELSE @[id]]],
         published |-> IF now # {} THEN <<ValuesPublication(valuesToSetNow)>>
                       ELSE <<>>]

\* host: the call made last and its publications, the definitions the host
\* has, the definitions the callers have asked for (added and not removed
\* since), and the values set last for definitions that were asked for and
\* not yet published
\* the definitions the host has after the publications
HostDefinitions(definitions, published) ==
    IF \E i \in DOMAIN published : published[i].kind = "definitions"
    THEN published[CHOOSE i \in DOMAIN published :
                       /\ published[i].kind = "definitions"
                       /\ \A j \in DOMAIN published :
                              published[j].kind = "definitions" => j <= i].defs
    ELSE definitions

CommitSetter(call, s, published, requested, lastSet) ==
    /\ setter' = s
    /\ host' = [call |-> call, published |-> published,
                definitions |-> HostDefinitions(host.definitions, published),
                requested |-> requested, lastSet |-> lastSet]
    /\ UNCHANGED <<psmVars, wdVars, devVars, wireVars, pa, conv, instance, vm>>

addVariableDefinition(id) ==
    CommitSetter("addVariableDefinition", setterAddVariableDefinition(setter, id),
                 <<>>, host.requested \cup {id}, host.lastSet)

removeVariableDefinition(id) ==
    CommitSetter("removeVariableDefinition", setterRemoveVariableDefinition(setter, id),
                 <<>>, host.requested \ {id}, host.lastSet)

setVariableValues(values) ==
    LET r == setterSetVariableValues(setter, values)
        pending == DOMAIN values \cap (host.requested \ host.definitions)
    IN  CommitSetter("setVariableValues", r.setter, r.published, host.requested,
                     [id \in DOMAIN host.lastSet \cup pending |->
                         IF id \in pending THEN values[id] ELSE host.lastSet[id]])

\* the timeout set off by #setDefinitions fires
setDefinitionsTimeout ==
    /\ setter.buffered
    /\ LET r == setDefinitionsToModule(setter)
       IN  CommitSetter("setDefinitionsTimeout", r.setter, r.published, host.requested,
                        EmptyMap)

InitSetter ==
    /\ setter = NewSetter
    /\ host = [call |-> "constructor", published |-> <<>>, definitions |-> {},
               requested |-> {}, lastSet |-> EmptyMap]

NextSetter ==
    \/ \E id \in VariableIds : addVariableDefinition(id)
    \/ \E id \in VariableIds : removeVariableDefinition(id)
    \/ \E values \in VariableValues : setVariableValues(values)
    \/ setDefinitionsTimeout

InitLib ==
    /\ pa = NewAddress(<<>>)
    /\ conv = NewConversion("percent", 0)
    /\ InitSetter
    /\ instance = NewInstance
    /\ vm = NewVariableManager

InitWD ==
    /\ nodePollerMap = EmptyMap
    /\ dependenciesToDependents = EmptyMap
    /\ dependentsToDependencies = EmptyMap
    /\ connnected = FALSE
    /\ wdRunning = FALSE
    /\ wdStops = [c \in StopCalls |-> [active |-> FALSE, waiting |-> {}]]
    /\ connectionStatusLog = "NONE"
    /\ wdOut = [call |-> <<"constructor", 0>>, events |-> <<>>, probes |-> {},
                stopResolved |-> {}]

(***************************************************************************)
(* VariableManager (variables) and the module's handlers that use it       *)
(***************************************************************************)
\* the parameter the variable definitions are made for
VariableAddress == <<1, "3.0.1.1.0">>
VariableUnits == {"RAW", "DB"}

\* buildVariableId for that parameter
buildVariableId(paramAddress, unit) ==
    IF unit = "DB" THEN "1.3.0.1.1.0-DB" ELSE "1.3.0.1.1.0-RAW"

\* getVariableDefinition(...) ?? createVariableDefinition(...): g is
\* [vm, setter]; a new definition is handed to the setter
getOrCreateVariableDefinition(g, id) ==
    IF id \in DOMAIN g.vm.variableDefinitionsMap THEN g
    ELSE [vm |-> [g.vm EXCEPT !.variableDefinitionsMap = MapSet(@, id, {})],
          setter |-> setterAddVariableDefinition(g.setter, id)]

\* #addVariableRegistration: get(typeId) ?? new Set([variableDef.id])
vmAddVariableRegistration(v, dep, id) ==
    [v EXCEPT !.variableDependentsMap =
        MapSet(@, dep, IF dep \in DOMAIN @ THEN @[dep] ELSE {id})]

\* VariableManager.registerDependent
vmRegisterDependent(v, dep, id) ==
    IF id \notin DOMAIN v.variableDefinitionsMap THEN v
    ELSE [vmAddVariableRegistration(v, dep, id) EXCEPT
             !.variableDefinitionsMap[id] = @ \cup {dep}]

\* removeVariableDefintion
vmRemoveVariableDefintion(g, id) ==
    [vm |-> [g.vm EXCEPT !.variableDefinitionsMap = MapDelete(@, id)],
     setter |-> setterRemoveVariableDefinition(g.setter, id)]

\* the forEach of VariableManager.deregisterDependent; g is
\* [vm, setter, remaining, purged]
RECURSIVE vmDeregisterEach(_, _, _)
vmDeregisterEach(g, dep, ids) ==
    IF ids = {} THEN g
    ELSE LET id == CHOOSE x \in ids : TRUE
             rest == ids \ {id}
         IN  IF id \notin DOMAIN g.vm.variableDefinitionsMap
             THEN vmDeregisterEach(g, dep, rest)
             ELSE LET v1 == [g.vm EXCEPT !.variableDefinitionsMap[id] = @ \ {dep}]
                      g1 == [g EXCEPT !.vm = v1]
                  IN  IF v1.variableDefinitionsMap[id] = {}
                      THEN LET r == vmRemoveVariableDefintion(
                                        [vm |-> v1, setter |-> g.setter], id)
                           IN  vmDeregisterEach(
                                   [g EXCEPT !.vm = r.vm, !.setter = r.setter,
                                             !.purged = @ \cup {id}],
                                   dep, rest)
                      ELSE vmDeregisterEach([g1 EXCEPT !.remaining = @ \cup {id}],
                                            dep, rest)

\* VariableManager.deregisterDependent with #popVariableRegistration
vmDeregisterDependent(v, s, dep) ==
    vmDeregisterEach(
        [vm |-> [v EXCEPT !.variableDependentsMap = MapDelete(@, dep)],
         setter |-> s, remaining |-> {}, purged |-> {}],
        dep, MapGetSet(v.variableDependentsMap, dep))

\* purgedDefinitions.forEach(... deregisterDependent(DependentType.VARIABLE, defId))
RECURSIVE deregisterPurged(_, _)
deregisterPurged(m, ids) ==
    IF ids = {} THEN m
    ELSE LET id == CHOOSE x \in ids : TRUE
         IN  deregisterPurged(mgrDeregisterDependent(m, <<"VARIABLE", id>>),
                              ids \ {id})

\* store the variable manager, its setter and what the host was asked for
CommitVm(call, v, s, remaining, purged, requested) ==
    /\ vm' = [v EXCEPT !.result = [call |-> call, remaining |-> remaining,
                                   purged |-> purged]]
    /\ setter' = s
    /\ host' = [host EXCEPT !.call = call[1], !.published = <<>>,
                            !.requested = requested]
    /\ UNCHANGED <<wdVars, listeners, timers, calls, setCalls, wireVars,
                   pa, conv, instance>>

\* #createVariableDefinitionAndRegisterDependent up to its await: the
\* definition is created if needed, the dependent registered on it and the
\* definition registered on the parameter's subscription
createVariableDefinitionAndRegisterDependent(unit, dep) ==
    LET id == buildVariableId(VariableAddress, unit)
        g == getOrCreateVariableDefinition([vm |-> vm, setter |-> setter], id)
        m == mgrRegisterDependent(Mgr, <<"VARIABLE", id>>, VariableAddress, unit)
    IN  /\ CommitVm(<<"registerDependent", dep>>, vmRegisterDependent(g.vm, dep, id),
                    g.setter, {}, {}, host.requested \cup {id})
        /\ Commit(m, "registerDependent", {})
        /\ devOut' = [call |-> "registerDependent", sent |-> callbackFrames(m)]

\* deregisterVariableDependent
deregisterVariableDependent(dep) ==
    LET g == vmDeregisterDependent(vm, setter, dep)
        m == deregisterPurged(Mgr, g.purged)
    IN  /\ CommitVm(<<"deregisterDependent", dep>>, g.vm, g.setter, g.remaining,
                    g.purged, host.requested \ g.purged)
        /\ Commit(m, "deregisterDependent", {})
        /\ devOut' = [call |-> "deregisterDependent", sent |-> callbackFrames(m)]

\* dependents that ask for variables and stop asking, and the setter's timeout
NextVariables ==
    \/ \E unit \in VariableUnits, dep \in Dependents :
           createVariableDefinitionAndRegisterDependent(unit, dep)
    \/ \E dep \in Dependents : deregisterVariableDependent(dep)
    \/ setDefinitionsTimeout

\* NodeConnectionWatchdog.start as the 'connect' handler calls it: it acts
\* only while the watchdog is not running
watchdogStartCall ==
    IF wdRunning THEN CommitWd(Wd, <<"start", 0>>) ELSE watchdogStart

\* NodeConnectionWatchdog.stop as the 'end' and 'error' handlers call it: it
\* acts only while the watchdog is running
watchdogStopCall(call) ==
    IF wdRunning THEN watchdogStop(call)
    ELSE ~wdStops[call].active /\ CommitWd(Wd, <<"stop", call>>)

\* the socket's 'connect' handler; the new connection has been handed no
\* frame yet
socketConnect ==
    /\ ~instance.connected
    /\ watchdogStartCall
    /\ instance' = [instance EXCEPT !.connected = TRUE, !.onDevice = {}]
    /\ UNCHANGED <<devVars, wireVars, pa, conv, setter, host, vm>>

\* the socket's 'end' handler
socketEnd(call) ==
    /\ instance.connected
    /\ watchdogStopCall(call)
    /\ instance' = [instance EXCEPT !.connected = FALSE]
    /\ UNCHANGED <<devVars, wireVars, pa, conv, setter, host, vm>>

\* the first node with a dependent, its probes and a transport that connects
\* and ends
NextReconnect ==
    \/ addNodeDependency(FirstNode, "f1") /\ UNCHANGED <<devVars, wireVars, libVars>>
    \/ socketConnect
    \/ \E c \in StopCalls : socketEnd(c)
    \/ heartBeatLoop(FirstNode) /\ UNCHANGED <<devVars, wireVars, libVars>>
    \/ handleHeartbeatResponse(FirstNode) /\ UNCHANGED <<devVars, wireVars, libVars>>
    \/ heartbeatTimeout(FirstNode) /\ UNCHANGED <<devVars, wireVars, libVars>>

\* a feedback on the first node, its probes, and a transport that connects
\* and ends; the node answers every probe that reaches it, and a probe handed
\* to an ended connection times out
NextResubscribe ==
    \/ \E t \in Targets, u \in ParameterUnit :
           /\ parameterSubscriptionTypeFromUnit(u) = t[2]
           /\ AddressNode(t[1]) = FirstNode
           /\ sendingStep(moduleRegisterDependent(<<"FEEDBACK", "f1">>, t[1], u))
    \/ addNodeDependency(FirstNode, "f1") /\ UNCHANGED <<devVars, wireVars, libVars>>
    \/ socketConnect
    \/ \E c \in StopCalls : socketEnd(c)
    \/ heartBeatLoop(FirstNode) /\ UNCHANGED <<devVars, wireVars, libVars>>
    \/ instance.connected /\ sendingStep(moduleHeartbeatResponse(FirstNode))
    \/ /\ ~instance.connected
       /\ heartbeatTimeout(FirstNode)
       /\ UNCHANGED <<devVars, wireVars, libVars>>

\* the timeout of a probe whose listener destroy() has removed: the reply of
\* the node cannot reach it any more
unheardProbeTimeout(node) ==
    /\ node \in DOMAIN nodePollerMap
    /\ ~nodePollerMap[node].awaiting
    /\ heartbeatTimeout(node)

\* the first node with its references and the watchdog's start and stop; the
\* node answers every probe
NextProbe ==
    \/ \E r \in NodeReferences :
           r[1] = FirstNode /\ addNodeDependency(r[1], r[2]) /\ UNCHANGED <<devVars, wireVars, libVars>>
    \/ \E d \in DependentIds :
           removeNodeDependency(d) /\ UNCHANGED <<devVars, wireVars, libVars>>
    \/ watchdogStart /\ UNCHANGED <<devVars, wireVars, libVars>>
    \/ \E c \in StopCalls :
           watchdogStop(c) /\ UNCHANGED <<devVars, wireVars, libVars>>
    \/ heartBeatLoop(FirstNode) /\ UNCHANGED <<devVars, wireVars, libVars>>
    \/ handleHeartbeatResponse(FirstNode) /\ UNCHANGED <<devVars, wireVars, libVars>>
    \/ unheardProbeTimeout(FirstNode) /\ UNCHANGED <<devVars, wireVars, libVars>>

\* one node with its references, its poller and the watchdog's stop and start
NextPoller ==
    \/ \E r \in NodeReferences :
           r[1] = FirstNode /\ addNodeDependency(r[1], r[2]) /\ UNCHANGED <<devVars, wireVars, libVars>>
    \/ \E d \in DependentIds :
           removeNodeDependency(d) /\ UNCHANGED <<devVars, wireVars, libVars>>
    \/ watchdogStart /\ UNCHANGED <<devVars, wireVars, libVars>>
    \/ \E c \in StopCalls :
           watchdogStop(c) /\ UNCHANGED <<devVars, wireVars, libVars>>
    \/ heartBeatLoop(FirstNode) /\ UNCHANGED <<devVars, wireVars, libVars>>
    \/ handleHeartbeatResponse(FirstNode) /\ UNCHANGED <<devVars, wireVars, libVars>>
    \/ heartbeatTimeout(FirstNode) /\ UNCHANGED <<devVars, wireVars, libVars>>
    \/ lateHeartbeatResponse(FirstNode) /\ UNCHANGED <<devVars, wireVars, libVars>>

\* all nodes with their references and pollers under a watchdog that is not stopped
NextWD ==
    \/ \E r \in NodeReferences :
           addNodeDependency(r[1], r[2]) /\ UNCHANGED <<devVars, wireVars, libVars>>
    \/ \E d \in DependentIds :
           removeNodeDependency(d) /\ UNCHANGED <<devVars, wireVars, libVars>>
    \/ \E n \in Nodes :
           heartBeatLoop(n) /\ UNCHANGED <<devVars, wireVars, libVars>>
    \/ \E n \in Nodes :
           handleHeartbeatResponse(n) /\ UNCHANGED <<devVars, wireVars, libVars>>
    \/ \E n \in Nodes :
           heartbeatTimeout(n) /\ UNCHANGED <<devVars, wireVars, libVars>>

Init == InitPSM /\ InitWD /\ InitDev /\ InitWire /\ InitLib

\* any command within the bounds is at hand to be encapsulated
InitCodec ==
    /\ InitPSM /\ InitWD /\ InitDev
    /\ \E payload \in Payloads : codec = NewCodec(payload)
    /\ rx = EmptyRx
    /\ InitLib

\* any address string of the three forms is at hand to be parsed
InitAddress ==
    /\ InitPSM /\ InitWD /\ InitDev /\ InitWire
    /\ \E parts \in AddressStrings : pa = NewAddress(parts)
    /\ conv = NewConversion("percent", 0)
    /\ InitSetter
    /\ instance = NewInstance
    /\ vm = NewVariableManager

\* any percentage, dB option or raw value of the model is at hand
InitConversion ==
    /\ InitPSM /\ InitWD /\ InitDev /\ InitWire
    /\ pa = NewAddress(<<>>)
    /\ \/ \E p \in PercentInputs : conv = NewConversion("percent", p)
       \/ \E v \in DbInputs : conv = NewConversion("db", v)
       \/ \E r \in RawInputs : conv = NewConversion("raw", r)
    /\ InitSetter
    /\ instance = NewInstance
    /\ vm = NewVariableManager

\* the manager with all its calls, one getParameterValue call at a time
SpecPSM == Init /\ [][NextPSM]_vars

\* the manager's value fetches, up to MaxCallers calls at a time
SpecFetch == Init /\ [][NextFetch]_vars

\* every armed timeout of a response() call fires
FairSpecFetch ==
    SpecFetch /\ WF_vars(responseTimeout /\ UNCHANGED <<devVars, wireVars, libVars>>)

\* the manager with unsubscribeAll and subscribeNodeParameters
SpecIndex == Init /\ [][NextIndex]_vars

\* the watchdog, its node references, its pollers and their probes
SpecWD == Init /\ [][NextWD]_vars

\* one node's poller with the watchdog's stop and start calls
SpecPoller == Init /\ [][NextPoller]_vars

\* encapsulation, a changed byte and decapsulation of every command
SpecCodec == InitCodec /\ [][NextCodec]_vars

\* chunks of frames with right and wrong checksums through the receive path
SpecRx == Init /\ [][NextRx]_vars

\* chunks in which frames are cut short
SpecSplit == Init /\ [][NextSplit]_vars

\* the manager under unsubscribeAll
SpecClear == Init /\ [][NextClear]_vars

\* a stream of well-formed frames cut into 'data' events
SpecStream == Init /\ [][NextStream]_vars

\* the messages of the device, heartbeat replies among them
SpecRecv == Init /\ [][NextRecv]_vars

\* variable definitions and their dependents
SpecVariables == Init /\ [][NextVariables]_vars

\* the poller's loop goes on: its waits end, and a probe without reply times out
FairSpecPoller ==
    /\ SpecPoller
    /\ WF_vars(heartBeatLoop(FirstNode) /\ UNCHANGED <<devVars, wireVars, libVars>>)
    /\ WF_vars(heartbeatTimeout(FirstNode) /\ UNCHANGED <<devVars, wireVars, libVars>>)

\* the transport connects and ends while the first node is probed
SpecReconnect == Init /\ [][NextReconnect]_vars

\* the transport connects and ends under subscriptions: the timers of the
\* loop fire, the replies arrive while connected, and the probes without
\* reply time out
FairSpecResubscribe ==
    /\ Init /\ [][NextResubscribe]_vars
    /\ WF_vars(heartBeatLoop(FirstNode) /\ UNCHANGED <<devVars, wireVars, libVars>>)
    /\ WF_vars(instance.connected /\ sendingStep(moduleHeartbeatResponse(FirstNode)))
    /\ WF_vars(~instance.connected /\ heartbeatTimeout(FirstNode)
                   /\ UNCHANGED <<devVars, wireVars, libVars>>)

\* a node that answers every probe: the timers of the loop fire and the
\* replies arrive
FairSpecProbe ==
    /\ Init /\ [][NextProbe]_vars
    /\ WF_vars(heartBeatLoop(FirstNode) /\ UNCHANGED <<devVars, wireVars, libVars>>)
    /\ WF_vars(handleHeartbeatResponse(FirstNode) /\ UNCHANGED <<devVars, wireVars, libVars>>)
    /\ WF_vars(unheardProbeTimeout(FirstNode) /\ UNCHANGED <<devVars, wireVars, libVars>>)

\* the device set calls of the module instance under a changing node status
SpecGate == Init /\ [][NextGate]_vars

\* registrations under a node that goes online and offline
SpecResync == Init /\ [][NextResync]_vars

\* registrations, probes and a reconfiguration of the module instance
SpecReconfig == Init /\ [][NextReconfig]_vars

\* parsing of address strings and their way through a frame
SpecAddress == InitAddress /\ [][NextAddress]_vars

\* the conversions between raw values, percentages and dB values
SpecConversion == InitConversion /\ [][NextConversion]_vars

\* the buffered definitions and values of the module variables
SpecSetter == Init /\ [][NextSetter]_vars

(***************************************************************************)
(* Claims about the ParameterSubscriptionManager                           *)
(***************************************************************************)
\* number of times x occurs in the sequence of callback invocations
Count(seq, x) == Cardinality({i \in DOMAIN seq : seq[i] = x})

\* the (dependent, address, unit) triples registerDependent is called with
Registrations ==
    {r \in Dependents \X ParameterAddresses \X ParameterUnit :
        <<r[2], parameterSubscriptionTypeFromUnit(r[3])>> \in Targets}

\* the dependents held by a subscription, {} when it does not exist
DependentsOf(paramId) ==
    IF paramId \in DOMAIN paramSubMap
    THEN paramSubMap[paramId].dependentRegistrations ELSE {}

\* dep is registered on paramId and on nothing else
RegisteredOnlyOn(dep, paramId) ==
    /\ dep \in DependentsOf(paramId)
    /\ \A other \in DOMAIN paramSubMap \ {paramId} : dep \notin DependentsOf(other)
    /\ MapGetSet(paramSubDependentsMap, dep) = {paramId}

C2_DeregisterRemovesEverywhere ==
    [][ \A d \in Dependents :
          (out'.call = "deregisterDependent" /\ deregisterDependent(d)) =>
              /\ \A id \in DOMAIN paramSubMap' :
                     d \notin paramSubMap'[id].dependentRegistrations
              /\ \A id \in DOMAIN paramSubMap :
                     (d \in DependentsOf(id) /\ DependentsOf(id) \ {d} = {}) =>
                         /\ id \notin DOMAIN paramSubMap'
                         /\ Count(out'.unsubscribed, id) = 1
      ]_vars

\* the cached value of a subscription, null when it does not exist
CachedValue(paramId) ==
    IF paramId \in DOMAIN paramSubMap THEN paramSubMap[paramId].value ELSE Null

\* the callers with a getParameterValue call pending on paramId
PendingOn(paramId) == {c \in Callers : calls[c] = PendingCall(paramId)}

\* C3: setCachedParameterValue invokes the value-changed callback exactly when
\* the incoming value differs from the cached one (null included), and in both
\* cases every getParameterValue call pending on that subscription is resolved
\* with the value.
C3_NotifyOnChangeAndResolve ==
    [][ \A t \in Targets, v \in Values :
          (out'.call = "setCachedParameterValue"
             /\ setCachedParameterValue(t[1], t[2], v)) =>
              LET id == getParamSubIdFromSubscriptionType(t[1], t[2])
              IN  /\ Len(out'.notified) = (IF CachedValue(id) # <<v>> THEN 1 ELSE 0)
                  /\ \A i \in DOMAIN out'.notified : out'.notified[i].value = v
                  /\ \A c \in PendingOn(id) :
                         /\ calls'[c].state = "idle"
                         /\ Completion(c, id, <<v>>, "none") \in out'.completed
      ]_vars

\* C4: every getParameterValue call completes: at once with the cached value
\* when there is one; otherwise a call does not stay pending across a
\* setCachedParameterValue on its subscription but completes with that value,
\* it completes with a timeout error only when its timeout fires, and it does
\* not stay pending forever.
C4_GetParameterValueCompletes ==
    /\ [][ /\ \A c \in Callers, t \in Targets :
                  (out'.call = "getParameterValue"
                     /\ CachedValue(getParamSubIdFromSubscriptionType(t[1], t[2])) # Null
                     /\ getParameterValue(c, t[1], t[2])) =>
                      out'.completed =
                          {Completion(c, getParamSubIdFromSubscriptionType(t[1], t[2]),
                                      CachedValue(getParamSubIdFromSubscriptionType(t[1], t[2])),
                                      "none")}
           /\ \A c \in Callers, t \in Targets, v \in Values :
                  (out'.call = "setCachedParameterValue"
                     /\ calls[c] = PendingCall(getParamSubIdFromSubscriptionType(t[1], t[2]))
                     /\ setCachedParameterValue(t[1], t[2], v)) =>
                      \E r \in out'.completed :
                          r.caller = c /\ r.data = <<v>> /\ r.error = "none"
           /\ \A r \in out'.completed :
                  r.error = "timeout" => out'.call = "responseTimeout"
          ]_vars
    /\ \A c \in Callers : (calls[c].state = "pending") ~> (calls[c].state = "idle")

(***************************************************************************)
(* Claims about the NodeConnectionWatchdog and its pollers                 *)
(***************************************************************************)
\* the events of one name about one node that the step emitted
NodeEvents(events, name, node) ==
    {i \in DOMAIN events : events[i][1] = name /\ events[i][2] = node}

\* the 'connectionStatus' events the step emitted
ConnectionStatusEvents(events) ==
    {i \in DOMAIN events : events[i][1] = "connectionStatus"}

\* the node has at least one dependent
Tracked(node) == dmHasDependents(Wd, node)

\* C5: with both thresholds 2, a poller that is OFFLINE becomes ONLINE in
\* exactly the iteration that takes its hit streak to 2, a poller that is
\* ONLINE becomes OFFLINE in exactly the iteration that takes its miss streak
\* to 2, no other step changes its online state, and 'onlineStatus' is
\* emitted once per change and never otherwise.
C5_ThresholdTransitions ==
    [][\A n \in DOMAIN nodePollerMap :
          LET before == nodePollerMap[n]
              after == nodePollerMap'[n]
              hit == wdOut'.call[1] = "handleHeartbeatResponse" /\ wdOut'.call[2] = n
              miss == wdOut'.call[1] = "heartbeatTimeout" /\ wdOut'.call[2] = n
              emitted == NodeEvents(wdOut'.events, "onlineStatus", n)
          IN  /\ (~before.online /\ after.online)
                    <=> (hit /\ ~before.online /\ after.hbCount = onlineThreshold)
              /\ (before.online /\ ~after.online)
                    <=> (miss /\ before.online /\ after.hbMissed = offlineThreshold)
              /\ Cardinality(emitted) = IF before.online # after.online THEN 1 ELSE 0
              /\ \A i \in emitted :
                    wdOut'.events[i][3] = NodeOnlineStatus(after.online)]_vars

\* a poller went ONLINE and its second consecutive miss has just made it OFFLINE
C5_Witness ==
    /\ wdOut.call[1] = "heartbeatTimeout"
    /\ nodePollerMap[wdOut.call[2]].hbMissed = offlineThreshold
    /\ NodeEvents(wdOut.events, "onlineStatus", wdOut.call[2]) # {}
    /\ ~nodePollerMap[wdOut.call[2]].online

\* C6: in every state the aggregate status is CONNECTED if and only if at
\* least one node that has a dependent is ONLINE.
C6_AggregateIffTrackedNodeOnline ==
    connnected <=> \E n \in Nodes : Tracked(n) /\ nodeOnline(n)

\* C7: 'connectionStatus' is emitted only in a step that changes the
\* watchdog's aggregate status, at most once, with the new value; the emitted
\* values alternate and the first one is CONNECTED; a step that leaves the
\* aggregate as it is emits none.
C7_ConnectionStatusEdgeTriggered ==
    [][LET emitted == ConnectionStatusEvents(wdOut'.events)
       IN  /\ Cardinality(emitted) = IF connnected' # connnected THEN 1 ELSE 0
           /\ \A i \in emitted :
                 /\ wdOut'.events[i][2] = ModuleConnectionStatus(connnected')
                 /\ wdOut'.events[i][2] # connectionStatusLog
                 /\ connectionStatusLog = "NONE" => wdOut'.events[i][2] = "CONNECTED"
                 /\ connectionStatusLog' = wdOut'.events[i][2]
           /\ emitted = {} => connectionStatusLog' = connectionStatusLog]_vars

\* a second node has just come ONLINE while the aggregate already was CONNECTED,
\* and nothing was emitted
C7_Witness ==
    /\ wdOut.call[1] = "handleHeartbeatResponse"
    /\ NodeEvents(wdOut.events, "onlineStatus", wdOut.call[2]) # {}
    /\ ConnectionStatusEvents(wdOut.events) = {}
    /\ connectionStatusLog = "CONNECTED"
    /\ \E n \in DOMAIN nodePollerMap : n # wdOut.call[2] /\ nodePollerMap[n].online

\* C8: every NodePoller.stop() call resolves only after the heartbeat loop of
\* its poller has exited: a poller whose stop() has just resolved is not
\* running and has no loop iteration left.
C8_StopResolvesAfterLoopExit ==
    \A n \in wdOut.stopResolved :
        ~nodePollerMap[n].running /\ nodePollerMap[n].pc = "stopped"

\* C9: a removeNodeDependency call that takes the last dependent from a node
\* leaves the node out of the poller map and not ONLINE; a node that keeps a
\* dependent keeps its poller as it was.
C9_LastDependentRemovesNode ==
    [][wdOut'.call[1] = "removeNodeDependency" =>
          \A n \in DOMAIN nodePollerMap :
              /\ (Tracked(n) /\ MapGetSet(dependenciesToDependents', n) = {})
                    => /\ n \notin DOMAIN nodePollerMap'
                       /\ ~(n \in DOMAIN nodePollerMap' /\ nodePollerMap'[n].online)
              /\ MapGetSet(dependenciesToDependents', n) # {}
                    => nodePollerMap'[n] = nodePollerMap[n]]_vars

\* C10: addNodeDependency on a node without dependents leaves a poller for
\* the node that is running and has not been told to stop.
C10_AddNodeStartsPoller ==
    [][(wdOut'.call[1] = "addNodeDependency" /\ ~Tracked(wdOut'.call[2])) =>
          /\ wdOut'.call[2] \in DOMAIN nodePollerMap'
          /\ nodePollerMap'[wdOut'.call[2]].running
          /\ ~nodePollerMap'[wdOut'.call[2]].stopFlag
          /\ nodePollerMap'[wdOut'.call[2]].pc # "stopped"]_vars

(***************************************************************************)
(* Claims about the device methods of the module instance                  *)
(***************************************************************************)
\* C11: every frame a device call hands to the transport is for a node that
\* the watchdog classifies as online when the frame is sent, also when the
\* call was suspended on the parameter value in between.
C11_NoFrameToOfflineNode ==
    [][UNCHANGED wdVars =>
          \A i \in DOMAIN devOut'.sent : nodeOnline(FrameNode(devOut'.sent[i]))]_vars

(***************************************************************************)
(* Claims about the manager's subscriptions and its node index             *)
(***************************************************************************)
\* the ids of the existing subscriptions whose address is on the node
NodeSubscriptions(node) ==
    {id \in DOMAIN paramSubMap : AddressNode(parameterAddress(id)) = node}

\* C12: whenever no manager call is in progress, every subscription the
\* manager holds has at least one dependent.
C12_NoSubscriptionWithoutDependents ==
    (\A c \in Callers : calls[c].state = "idle")
        => \A id \in DOMAIN paramSubMap : hasDependents(paramSubMap[id])

\* C13: the node index is exact: nodeMap[n] is the set of ids of the existing
\* subscriptions on node n, and a node without subscriptions has no entry.
C13_NodeIndexExact ==
    \A n \in Nodes :
        IF NodeSubscriptions(n) = {}
        THEN n \notin DOMAIN nodeMap
        ELSE n \in DOMAIN nodeMap /\ nodeMap[n] = NodeSubscriptions(n)

\* C14: subscribeNodeParameters(node) invokes the device-subscribe callback
\* exactly once for every existing subscription on that node and for
\* nothing else.
C14_SubscribeNodeParametersExact ==
    [][\A n \in Nodes :
          (out'.call = "subscribeNodeParameters" /\ subscribeNodeParameters(n))
              => \A id \in ParamSubIds :
                    Count(out'.subscribed, id)
                        = IF id \in NodeSubscriptions(n) THEN 1 ELSE 0]_vars

\* a node with both representations subscribed, and an index entry of another
\* node left over, has just been resubscribed
C14_Witness ==
    /\ out.call = "subscribeNodeParameters"
    /\ Len(out.subscribed) = 2
    /\ \E n \in DOMAIN nodeMap : nodeMap[n] # NodeSubscriptions(n)

(***************************************************************************)
(* Claims about the ResponseNotifier                                       *)
(***************************************************************************)
\* the callers with a listener on the key, first registered first
Waiters(key) == SelectSeq(timers, LAMBDA c : c \in listeners /\ calls[c].key = key)

\* C15: when waiters are pending on the key, one setResponse(key, value)
\* completes exactly one of them, the first registered; the others stay
\* pending with their listeners.
C15_SetResponseCompletesFirstWaiter ==
    [][\A t \in Targets, v \in Values :
          (out'.call = "setCachedParameterValue"
              /\ setCachedParameterValue(t[1], t[2], v))
          => LET key == getParamSubIdFromSubscriptionType(t[1], t[2])
                 waiting == Waiters(key)
             IN  waiting # <<>> =>
                    /\ {r.caller : r \in out'.completed} = {Head(waiting)}
                    /\ \A i \in 2..Len(waiting) :
                          /\ calls'[waiting[i]].state = "pending"
                          /\ waiting[i] \in listeners']_vars

\* C16: a heartbeat reply that arrives while no probe awaits it is dropped:
\* it changes nothing in the poller, the next probe starts with the streaks
\* as they were, and a probe is only ever completed by a reply or a timeout
\* that comes after it was sent.
C16_LateResponseDropped ==
    [][\A n \in DOMAIN nodePollerMap :
          LET before == nodePollerMap[n]
              after == nodePollerMap'[n]
          IN  /\ (wdOut'.call[1] = "lateHeartbeatResponse" /\ wdOut'.call[2] = n)
                    => after = before /\ wdOut'.events = <<>>
              /\ (before.pc # "probing" /\ after.pc = "probing")
                    => /\ after.awaiting
                       /\ after.hbCount = before.hbCount
                       /\ after.hbMissed = before.hbMissed
              /\ (before.pc = "probing" /\ after.pc # "probing")
                    => wdOut'.call[1] \in {"handleHeartbeatResponse", "heartbeatTimeout"}
              /\ after.hbCount > before.hbCount
                    => wdOut'.call[1] = "handleHeartbeatResponse" /\ before.awaiting]_vars

\* a reply has just arrived after its probe timed out
C16_Witness ==
    /\ wdOut.call[1] = "lateHeartbeatResponse"
    /\ nodePollerMap[wdOut.call[2]].pc = "sleep"
    /\ nodePollerMap[wdOut.call[2]].hbMissed > 0

RECURSIVE GoodCommands(_)
GoodCommands(frames) ==
    IF frames = <<>> THEN <<>>
    ELSE (IF Head(frames).good THEN <<Head(frames).command>> ELSE <<>>)
             \o GoodCommands(Tail(frames))

\* C18: a frame with a wrong checksum is dropped and every well-formed frame
\* of the same chunk, also one that follows it, is decoded: the messages
\* parsed from a chunk are the commands of its well-formed frames, in order.
C18_BadFrameDroppedOthersDecoded ==
    rx.parsed => rx.messages = GoodCommands(rx.frames)

\* C19: decapsulateCommand(encapsulateCommand(payload)) = payload for every
\* payload, reserved bytes in the payload or as checksum included.
C19_RoundTrip ==
    (codec.result # <<>> /\ ~codec.tampered)
        => codec.result[1] = Decapsulated(codec.payload)

\* a command of reserved bytes whose checksum is a reserved byte has been
\* encapsulated and decapsulated
C19_Witness ==
    /\ codec.result # <<>> /\ ~codec.tampered
    /\ codec.payload # <<>>
    /\ \A i \in DOMAIN codec.payload : codec.payload[i] \in {2, 3, 6, 21, 27}
    /\ calculateChecksum(codec.payload) \in {2, 3, 6, 21, 27}
    /\ Len(codec.frame) = 2 * Len(codec.payload) + 4

\* C20: a frame in which one byte, at any position, has been replaced by a
\* different value decapsulates to null.
C20_TamperedFrameIsNull ==
    (codec.result # <<>> /\ codec.tampered) => codec.result[1] = DecapsulateNull

(***************************************************************************)
(* Claims about ParameterAddress                                           *)
(***************************************************************************)
\* the bytes, lowest first, of the number a field denotes
FieldBytes(part) ==
    IF part.hex THEN CoerceBigint(part.digits)
    ELSE LET n == CoerceNumber(part)
         IN  <<n % 256, (n \div 256) % 256, (n \div 65536) % 256, n \div 16777216>>

\* the number a field denotes is below 256^width
FitsBytes(part, width) ==
    \A i \in DOMAIN FieldBytes(part) : i > width => FieldBytes(part)[i] = 0

\* node, vd, every object octet and param of the string are within their ranges
TextInRange(parts) ==
    IF Len(parts) = 6
    THEN /\ FitsBytes(parts[1], 2) /\ FitsBytes(parts[2], 1)
         /\ \A i \in 3..5 : FitsBytes(parts[i], 1)
         /\ FitsBytes(parts[6], 2)
    ELSE IF Len(parts) = 4
    THEN /\ FitsBytes(parts[1], 2) /\ FitsBytes(parts[2], 1)
         /\ FitsBytes(parts[3], 3) /\ FitsBytes(parts[4], 2)
    ELSE FitsBytes(parts[1], 6) /\ FitsBytes(parts[2], 2)

\* the address an in-range string of one of the three forms stands for
TextAddress(parts) ==
    LET byte(part, i) == BigintByte(FieldBytes(part), i)
        word(part) == byte(part, 1) * 256 + byte(part, 0)
    IN  IF Len(parts) = 6
        THEN Parsed(word(parts[1]), byte(parts[2], 0),
                    <<byte(parts[3], 0), byte(parts[4], 0), byte(parts[5], 0)>>,
                    word(parts[6]))
        ELSE IF Len(parts) = 4
        THEN Parsed(word(parts[1]), byte(parts[2], 0),
                    <<byte(parts[3], 2), byte(parts[3], 1), byte(parts[3], 0)>>,
                    word(parts[4]))
        ELSE Parsed(byte(parts[1], 5) * 256 + byte(parts[1], 4), byte(parts[1], 3),
                    <<byte(parts[1], 2), byte(parts[1], 1), byte(parts[1], 0)>>,
                    word(parts[2]))

\* C21: an address that went through toBuf and fromBuf is the address it was,
\* and an in-range string of the 6-field, the 4-field or the 2-field
\* (hexadecimal packed) form parses to the address it stands for, so that the
\* forms of one logical address parse to the same address.
C21_AddressRoundTripAndForms ==
    /\ pa.back # <<>> => pa.back[1] = pa.parsed[1].address
    /\ (/\ pa.parsed # <<>>
        /\ TextInRange(pa.text)
        /\ Len(pa.text) = 2 => pa.text[1].hex)
           => pa.parsed[1] = TextAddress(pa.text)

\* C22: a string with node, vd, an object octet, param or a packed value out
\* of range fails to parse; it is not accepted by truncating it.
C22_OutOfRangeRejected ==
    (pa.parsed # <<>> /\ ~TextInRange(pa.text)) => ~pa.parsed[1].ok

(***************************************************************************)
(* Claims about the unit conversions                                       *)
(***************************************************************************)
\* clamp(percent, 0, 100)
Clamp(percent) ==
    IF percent > 100000 THEN 100000 ELSE IF percent < 0 THEN 0 ELSE percent

\* the consequences the percent encoding is stated to have: 100 % is 6553600,
\* everything above 100 is encoded like 100, everything below 0 is encoded as
\* 0, and an integer percentage in 0..100 comes back from its raw value
PercentCases ==
    /\ (conv.result # <<>> /\ conv.input = 100000) => conv.result[1] = 6553600 * 25
    /\ (conv.result # <<>> /\ conv.input > 100000)
           => conv.result[1] = percentToRaw(100000)
    /\ (conv.result # <<>> /\ conv.input < 0) => conv.result[1] = 0
    /\ (conv.back # <<>> /\ conv.input \in 0..100000 /\ conv.input % 1000 = 0)
           => conv.back[1] = conv.input

\* C26 as stated: the raw value of a percentage is 65536 times the percentage
\* clamped to 0..100, with the cases above.
C26_PercentEncoding ==
    conv.kind = "percent" =>
        /\ conv.result # <<>> => 10 * conv.result[1] = 16384 * Clamp(conv.input)
        /\ PercentCases

\* C26 amended: the raw value of a percentage is 65536 times the percentage
\* clamped to 0..100 and rounded to two decimals, with the cases above.
C26_PercentEncodingRounded ==
    conv.kind = "percent" =>
        /\ conv.result # <<>>
               => conv.result[1] = 16384 * RoundDiv(Clamp(conv.input), 10)
        /\ PercentCases

\* a percentage above 100 with more than two decimals went to raw and back
C26_Witness ==
    /\ conv.kind = "percent"
    /\ conv.input = 100001
    /\ conv.back = <<100000>>

\* C27: a dB variable shows "-inf" exactly when the cached raw value is
\* -280617 and a number for every other raw value, and a set of '-inf' is
\* encoded as the raw value of -80 dB, whether or not the option went through
\* parseDbInput.
C27_DbSentinel ==
    /\ (conv.kind = "raw" /\ conv.result # <<>>)
           => IF conv.input = -280617
              THEN conv.result[1] = ShownInf
              ELSE conv.result[1] = ShownNumber(rawToDb(conv.input))
    /\ (conv.kind = "db" /\ conv.input = DbInf /\ conv.result # <<>>)
           => conv.result[1] = dbToRaw(Db(-80000))

\* '-inf' was set without passing parseDbInput first
C27_Witness ==
    /\ conv.kind = "db"
    /\ conv.input = DbInf
    /\ conv.parsed = <<>>
    /\ conv.result = <<-280617997>>

(***************************************************************************)
(* Claims about the ModuleVariableSetter                                   *)
(***************************************************************************)
DefinitionsPublications(published) ==
    {i \in DOMAIN published : published[i].kind = "definitions"}

\* C23: add and remove calls publish nothing themselves; while the host lacks
\* a definition that was asked for, or has one that was removed, a debounce
\* window is open; the end of the window makes exactly one definitions
\* publication, whose content is the set asked for by then (the committed set
\* with the net removals taken out and the net additions put in), so that a
\* definition added and removed again within the window is not published.
C23_OnePublicationPerWindow ==
    /\ [](host.requested # host.definitions => setter.buffered)
    /\ [][/\ host'.call \in {"addVariableDefinition", "removeVariableDefinition"}
               => host'.published = <<>>
          /\ host'.call = "setVariableValues"
               => DefinitionsPublications(host'.published) = {}
          /\ host'.call = "setDefinitionsTimeout"
               => /\ DefinitionsPublications(host'.published) = {1}
                  /\ host'.published[1] = DefinitionsPublication(host.requested)
                  /\ ~setter'.buffered]_vars

\* a window in which a definition was added ended with the publication of
\* nothing: the definition was removed again before
C23_Witness ==
    /\ host.call = "setDefinitionsTimeout"
    /\ host.published = <<DefinitionsPublication({})>>
    /\ host.requested = {}

\* C24: a value is pushed to the host only for definitions the host has been
\* handed before; the flush pushes, directly after its definitions
\* publication, the last value set during the window for every definition it
\* publishes that was pending; a value set for a definition the host has is
\* pushed by the call itself.
C24_ValuesAfterDefinitions ==
    [][/\ \A i \in DOMAIN host'.published :
              host'.published[i].kind = "values" =>
                  DOMAIN host'.published[i].values \subseteq
                      HostDefinitions(host.definitions,
                                      SubSeq(host'.published, 1, i - 1))
       /\ host'.call = "setDefinitionsTimeout" =>
              LET held == DOMAIN host.lastSet \cap host.requested
              IN  held # {} =>
                      /\ Len(host'.published) = 2
                      /\ host'.published[2].kind = "values"
                      /\ \A id \in held :
                             /\ id \in DOMAIN host'.published[2].values
                             /\ host'.published[2].values[id] = host.lastSet[id]
       /\ \A values \in VariableValues :
              (host'.call = "setVariableValues" /\ setVariableValues(values)) =>
                  LET now == DOMAIN values \cap host.definitions
                  IN  now # {} =>
                          host'.published =
                              <<ValuesPublication([id \in now |-> values[id]])>>]_vars

(***************************************************************************)
(* Claims about the streaks of a poller                                    *)
(***************************************************************************)
\* C28: a reply to a probe sets the miss streak of its poller to 0 and adds 1
\* to its hit streak, a timeout of a probe sets the hit streak to 0 and adds
\* 1 to the miss streak; the two streaks are never both non-zero; and with
\* onlineThreshold 2 a reply that follows a miss leaves an OFFLINE node
\* OFFLINE (hit, miss, hit).
C28_StreaksExclusive ==
    /\ [](\A n \in DOMAIN nodePollerMap :
              nodePollerMap[n].hbCount = 0 \/ nodePollerMap[n].hbMissed = 0)
    /\ [][\A n \in DOMAIN nodePollerMap :
             LET before == nodePollerMap[n]
                 after == nodePollerMap'[n]
                 hit == wdOut'.call[1] = "handleHeartbeatResponse" /\ wdOut'.call[2] = n
                 miss == wdOut'.call[1] = "heartbeatTimeout" /\ wdOut'.call[2] = n
             IN  /\ hit => /\ after.hbMissed = 0
                           /\ after.hbCount = before.hbCount + 1
                 /\ miss => /\ after.hbCount = 0
                            /\ after.hbMissed = before.hbMissed + 1
                 /\ (hit /\ ~before.online /\ before.hbMissed > 0) => ~after.online
         ]_vars

\* an OFFLINE node's probe was answered and its hit streak is 1 again
C28_Witness ==
    /\ wdOut.call[1] = "handleHeartbeatResponse"
    /\ nodePollerMap[wdOut.call[2]].hbCount = 1
    /\ nodePollerMap[wdOut.call[2]].hbMissed = 0
    /\ ~nodePollerMap[wdOut.call[2]].online

(***************************************************************************)
(* Claims about the resynchronisation of a node                            *)
(***************************************************************************)
\* the subscribe frame of a subscription
SubscribeFrame(paramId) ==
    Frame(IF paramId[2] = ":STD" THEN "SUBSCRIBE" ELSE "SUBSCRIBE_PERCENT",
          parameterAddress(paramId))

UnsubscribeFrame(paramId) ==
    Frame(IF paramId[2] = ":STD" THEN "UNSUBSCRIBE" ELSE "UNSUBSCRIBE_PERCENT",
          parameterAddress(paramId))

\* the subscription of the manager as the device knows it
DeviceSubscription(paramId) ==
    <<parameterAddress(paramId), IF paramId[2] = ":STD" THEN "RAW" ELSE "PERCENT">>

\* C25: when configUpdated goes on to init(), every poll loop of the old
\* watchdog has exited, an unsubscribe frame has been sent for every
\* subscription of the old manager that the device was sent a subscribe for,
\* and no subscription is left on the device for init() to subscribe again.
C25_DestroyCompletesBeforeInit ==
    [][(instance.phase = "destroying" /\ instance'.phase = "running")
           => /\ instance'.loops = {}
              /\ \A paramId \in DOMAIN paramSubMap :
                     DeviceSubscription(paramId) \in instance.onDevice
                         => \E i \in DOMAIN devOut'.sent :
                                devOut'.sent[i] = UnsubscribeFrame(paramId)
              /\ instance'.kept = {}]_vars

(***************************************************************************)
(* Claims about the splitting of received bytes into frames                *)
(***************************************************************************)
\* C30: every frame handed to the codec starts at a start delimiter, ends at
\* an end delimiter and has no other start delimiter in it, so that it starts
\* at the most recent start delimiter before its end delimiter and no byte of
\* an earlier, truncated frame is part of it.
C30_FrameFromLastStx ==
    rx.parsed =>
        \A i \in DOMAIN rx.handed :
            LET frame == rx.handed[i]
            IN  /\ frame[1] = 2
                /\ frame[Len(frame)] = 3
                /\ \A j \in 2..Len(frame) : frame[j] # 2

(***************************************************************************)
(* Claims about the dispatch of received messages                          *)
(***************************************************************************)
\* C31: a SET message at the heartbeat address of its node reaches the
\* watchdog only: the manager's subscriptions stay as they are and no value
\* change is notified; every other SET or SET_PERCENT message is stored by
\* setCachedParameterValue under the matching representation and leaves the
\* pollers as they are.
C31_HeartbeatReplyOnlyToWatchdog ==
    [][\A msg_type \in {"SET", "SET_PERCENT"}, a \in RecvAddresses, v \in Values :
           handleRecvMessage(msg_type, a, v) =>
               IF msg_type = "SET" /\ a[2] = WATCHDOG_TIME_PARAMETER
               THEN /\ paramSubMap' = paramSubMap
                    /\ paramAddressMap' = paramAddressMap
                    /\ nodeMap' = nodeMap
                    /\ out' = out
                    /\ wdOut'.call[2] = a[1]
               ELSE /\ out'.call = "setCachedParameterValue"
                    /\ LET paramId == getParamSubIdFromSubscriptionType(
                                          a, IF msg_type = "SET" THEN "RAW" ELSE "PERCENT")
                       IN  /\ paramId \in DOMAIN paramSubMap'
                           /\ paramSubMap'[paramId].value = <<v>>
                    /\ nodePollerMap' = nodePollerMap]_vars

\* a heartbeat reply has been counted while a subscription with a value exists
C31_Witness ==
    /\ wdOut.call = <<"handleHeartbeatResponse", FirstNode>>
    /\ nodePollerMap[FirstNode].hbCount > 0
    /\ \E paramId \in DOMAIN paramSubMap : paramSubMap[paramId].value # Null

(***************************************************************************)
(* Claims about the VariableManager                                        *)
(***************************************************************************)
\* C32: deregisterDependent removes the dependent from every definition it
\* was registered on; the definitions left without dependents are purged and
\* returned as purgedDefinitions, the others as remainingDefinitions, and
\* afterwards no definition is without dependents.
C32_DeregisterFromEveryDefinition ==
    [][\A dep \in Dependents :
           vm'.result.call = <<"deregisterDependent", dep>> /\ vm' # vm =>
               LET before == vm.variableDefinitionsMap
                   after == vm'.variableDefinitionsMap
                   on == {id \in DOMAIN before : dep \in before[id]}
               IN  /\ \A id \in DOMAIN after : dep \notin after[id] /\ after[id] # {}
                   /\ vm'.result.purged = {id \in on : before[id] = {dep}}
                   /\ vm'.result.remaining = {id \in on : before[id] # {dep}}
                   /\ DOMAIN after = DOMAIN before \ vm'.result.purged]_vars

(***************************************************************************)
(* Claims about a responsive node                                          *)
(***************************************************************************)
\* the first node has a dependent and the watchdog is running
Watched ==
    /\ wdRunning
    /\ MapGetSet(dependenciesToDependents, FirstNode) # {}

\* C33: a node that has a dependent, whose watchdog is running and which
\* answers every probe is eventually classified ONLINE (or stops being
\* watched); and every turn of the loop that is not told to stop sends a
\* probe, whatever the node's classification.
C33_ResponsiveNodeComesOnline ==
    /\ Watched ~> (nodeOnline(FirstNode) \/ ~Watched)
    /\ [][(wdOut'.call = <<"heartBeatLoop", FirstNode>> /\ nodePollerMap' # nodePollerMap
              /\ ~nodePollerMap[FirstNode].stopFlag)
             => FirstNode \in wdOut'.probes]_vars

(***************************************************************************)
(* Claims about the watchdog across a reconnection                         *)
(***************************************************************************)
\* C34: a start() called after a stop() is not lost: whenever the transport
\* is connected and no stop() of the watchdog is pending, the watchdog and
\* the pollers of all tracked nodes are running.
C34_StartAfterStopNotLost ==
    (instance.connected /\ \A c \in StopCalls : ~wdStops[c].active)
        => /\ wdRunning
           /\ \A n \in DOMAIN nodePollerMap : nodePollerMap[n].running

(***************************************************************************)
(* Claims about stop() and destroy()                                       *)
(***************************************************************************)
\* C35: every stop() of the watchdog that waits for the pollers eventually
\* resolves, also when a poller is destroyed meanwhile, and when it resolves
\* the watchdog's running flag is false.
C35_StopResolves ==
    /\ \A c \in StopCalls : wdStops[c].active ~> ~wdStops[c].active
    /\ [][\A c \in StopCalls :
              (wdStops[c].active /\ ~wdStops'[c].active) => ~wdRunning']_vars

C39_TimeoutLeavesLaterWaiter ==
    [][/\ out'.call = "responseTimeout"
           => \A c \in Callers : calls'[c].state = "pending" => c \in listeners'
       /\ \A c \in Callers, t \in Targets, v \in Values :
              (/\ out'.call = "setCachedParameterValue"
               /\ calls[c] = PendingCall(getParamSubIdFromSubscriptionType(t[1], t[2]))
               /\ setCachedParameterValue(t[1], t[2], v))
                  => Completion(c, getParamSubIdFromSubscriptionType(t[1], t[2]),
                                <<v>>, "none") \in out'.completed]_vars

(***************************************************************************)
(* Claims about the ids the host is given values for                       *)
(***************************************************************************)
\* the ids of the values publications of a step
PublishedValueIds(published) ==
    UNION {DOMAIN published[i].values :
               i \in {j \in DOMAIN published : published[j].kind = "values"}}

\* C37: the values callback of the host is never invoked with an id that is
\* absent from the definitions list published last: the ids of a flush are
\* among the definitions it has just published, and the ids of any other call
\* are among the definitions the host already has.
C37_ValuesOnlyForPublishedIds ==
    [][PublishedValueIds(host'.published) \subseteq
           IF DefinitionsPublications(host'.published) # {}
           THEN host'.definitions
           ELSE host.definitions]_vars

(***************************************************************************)
(* Claims about frames that span two 'data' events                         *)
(***************************************************************************)
\* C38: when the whole stream of well-formed frames has been delivered, in
\* 'data' events of whatever lengths, every frame has been dispatched exactly
\* once and in order, also a frame whose bytes came in two events.
C38_SplitFrameDispatchedOnce ==
    (rx.parsed /\ \A i \in DOMAIN rx.frames : rx.frames[i].good)
        => rx.messages = [i \in DOMAIN rx.frames |-> rx.frames[i].command]

(***************************************************************************)
(* Claims about unsubscribeAll                                             *)
(***************************************************************************)
\* C40: unsubscribeAll invokes the device unsubscribe exactly once for every
\* subscription that exists and leaves the manager without subscriptions,
\* dependent registrations and address mappings; a registerDependent for an
\* address and unit whose subscription does not exist (any more) creates a
\* subscription with a null cached value and invokes the device subscribe
\* for it.
C40_UnsubscribeAllEmpties ==
    [][/\ out'.call = "unsubscribeAll"
           => /\ Len(out'.unsubscribed) = Cardinality(DOMAIN paramSubMap)
              /\ \A paramId \in DOMAIN paramSubMap :
                     \E i \in DOMAIN out'.unsubscribed : out'.unsubscribed[i] = paramId
              /\ out'.subscribed = <<>>
              /\ paramSubMap' = EmptyMap
              /\ paramSubDependentsMap' = EmptyMap
              /\ paramAddressMap' = EmptyMap
       /\ \A d \in Dependents, t \in Targets, u \in ParameterUnit :
              (/\ parameterSubscriptionTypeFromUnit(u) = t[2]
               /\ getParamSubIdFromUnit(t[1], u) \notin DOMAIN paramSubMap
               /\ out'.call = "registerDependent"
               /\ registerDependent(d, t[1], u))
                  => LET paramId == getParamSubIdFromUnit(t[1], u)
                     IN  /\ paramId \in DOMAIN paramSubMap'
                         /\ paramSubMap'[paramId].value = Null
                         /\ paramSubMap'[paramId].dependentRegistrations # {}
                         /\ out'.subscribed = <<paramId>>]_vars

\* a subscription was registered again after an unsubscribeAll (which left
\* the node index with the ids of what it removed): it is the only one, its
\* cached value is null and its device subscribe was invoked
C40_Witness ==
    /\ out.call = "registerDependent"
    /\ Len(out.subscribed) = 1
    /\ DOMAIN paramSubMap = {out.subscribed[1]}
    /\ paramSubMap[out.subscribed[1]].value = Null
    /\ FirstNode \in DOMAIN nodeMap
    /\ Cardinality(nodeMap[FirstNode]) = 2
    /\ out.subscribed[1] \in nodeMap[FirstNode]

====
